---- MODULE Spec2Model ----
(***************************************************************************)
(* Model of the scene-change detection and search core of video-search:   *)
(*   app/utils/video-analysis.ts      detector, durations, persistence     *)
(*   app/utils/text-search-service.ts searchByText                         *)
(*   app/utils/text-feature-extractor.ts similarity, (de)serialization     *)
(*   app/pages/index.vue              detectScenes (per-video completion)  *)
(*                                                                         *)
(* Conventions.  An optional value (a field that may be undefined, a       *)
(* nullable reference) is a set: {} when absent, {v} when present.         *)
(* A difference score is an integer number of 1/ScoreDen units, so the     *)
(* chi-square arithmetic is exact.                                         *)
(***************************************************************************)
EXTENDS Integers, Sequences, FiniteSets, TLC

VARIABLES
    \* ---- createVideoFrameSceneDetector: arguments and closure state
    threshold,                      \* options.threshold, in 1/ScoreDen units
    enableFeatureExtraction,        \* options.enableFeatureExtraction
    hasDirectory,                   \* parentDirectoryHandle && videoName given
    previousFrameData,
    frameIndex,
    lastProcessedTime,
    isFirstFrame,
    sceneChanges,
    imageFeatureExtractor,          \* TRUE when the reference is non-null
    isFeatureExtractorInitialized,
    \* ---- the parent directory on disk
    thumbnailsDir,                  \* names of the files in thumbnails/
    featuresFile,                   \* features/<video>.features.json: {} or {records}
    \* ---- the caller (detectScenes and any other user of the detector)
    returned,                       \* {} or {array}: the array a getSceneChanges call gave out
    analysisResult,                 \* sceneAnalysisResults[videoName]: {} or {result}
    \* ---- observation of the last call: its arguments, pre-state and result
    fedFrame,                       \* frame given to the latest processFrame since reset
    lastCall,
    resets,                         \* number of reset() calls so far
    \* ---- calculateSceneDurations applied to an arbitrary ordered list
    durIn, durTotal, durOut, durOrig,
    \* ---- TextSearchService.searchByText applied to an arbitrary query
    srchScenes, srchQuery, srchOut,
    \* ---- serializeScenes / deserializeScenes applied to an arbitrary list
    rtIn, rtOut,
    \* ---- calculateHistogramDifference applied to an arbitrary pair of frames
    histIn, histOut,
    \* ---- calculateTextImageSimilarity applied to an arbitrary pair of vectors
    simIn, simOut,
    \* ---- formatTimestamp applied to an arbitrary number of seconds
    fmtIn, fmtOut,
    \* ---- the scanned directory with several videos (index.vue)
    existingVideos,                 \* relativePath of the .mp4 files present
    thumbnails,                     \* thumbnails/: {} when absent, else {set of names}
    featuresDir,                    \* features/: {} when absent, else {set of files}
    inDirectory,                    \* currentDirectoryHandle is set
    sceneAnalysisResults,           \* runtime results: relativePath -> result
    storedSceneAnalysisResults,     \* useStorage entry of the directory: {} or {results}
    scanQueue,                      \* {} or {videos the running detectScenes has still to analyse}
    \* ---- observation of the last directory operation and of the clean-ups
    lastIo,
    writers,                        \* which (video, frame) wrote which thumbnail name
    clean,                          \* a clean-up has run and nothing has changed since
    changed,                        \* a video with a result was deleted, or a re-analysis
                                    \* changed the shots of one, since the latest clean-up
    \* ---- one CLIPFeatureExtractor / CLIPTextExtractor and its callers
    globalImageExtractor,           \* {} for null, else {instance}
    instances,                      \* number of instances constructed so far
    extractor,                      \* this.extractor: {} for null, else {load that set it}
    isInitialized,                  \* this.isInitialized
    initPromise,                    \* this.initPromise: {} for null, else {load}
    loads,                          \* the model loads started: "inFlight", "done", "failed"
    callers,                        \* each caller: idle, or awaiting the promise of a load
    given,                          \* instances getGlobalImageExtractor has returned
    disposedInFlight,               \* dispose() was called while a load was in flight
    \* ---- index.vue: the detectScenes batch and the navigation
    detectingScenesLoading,         \* detectingScenesLoading.value
    currentDirectoryKey,            \* "" at home, else the key of the open directory
    otherStored,                    \* storedSceneAnalysisResults of the directory "B"
    batch,                          \* the detectScenes call that runs or ran last
    activeBatches,                  \* detectScenes calls between their guard and finally
    batches,                        \* detectScenes calls made so far
    openFrames                      \* VideoFrames made by toVideoFrame and not closed

vars ==
    << threshold, enableFeatureExtraction, hasDirectory, previousFrameData,
       frameIndex, lastProcessedTime, isFirstFrame, sceneChanges,
       imageFeatureExtractor, isFeatureExtractorInitialized,
       thumbnailsDir, featuresFile, returned, analysisResult,
       fedFrame, lastCall, resets, durIn, durTotal, durOut, durOrig,
       srchScenes, srchQuery, srchOut, rtIn, rtOut, histIn, histOut,
       simIn, simOut, fmtIn, fmtOut,
       existingVideos, thumbnails, featuresDir, inDirectory, sceneAnalysisResults,
       storedSceneAnalysisResults, scanQueue, lastIo, writers, clean, changed,
       globalImageExtractor, instances, extractor, isInitialized, initPromise, loads,
       callers, given, disposedInFlight,
       detectingScenesLoading, currentDirectoryKey, otherStored, batch, activeBatches,
       batches, openFrames >>

detVars ==
    << threshold, enableFeatureExtraction, hasDirectory, previousFrameData,
       frameIndex, lastProcessedTime, isFirstFrame, sceneChanges,
       imageFeatureExtractor, isFeatureExtractorInitialized,
       thumbnailsDir, featuresFile, returned, analysisResult,
       fedFrame, lastCall, resets >>

durVars == << durIn, durTotal, durOut, durOrig >>

srchVars == << srchScenes, srchQuery, srchOut >>

fnVars == << rtIn, rtOut, histIn, histOut, simIn, simOut, fmtIn, fmtOut >>

fileVars == << thumbnails, featuresDir, lastIo, writers >>

gcVars ==
    << existingVideos, inDirectory, sceneAnalysisResults, storedSceneAnalysisResults,
       scanQueue, clean, changed >>

wsVars == << fileVars, gcVars >>

extVars ==
    << globalImageExtractor, instances, extractor, isInitialized, initPromise, loads,
       callers, given, disposedInFlight >>

batchVars ==
    << detectingScenesLoading, currentDirectoryKey, otherStored, batch, activeBatches,
       batches, openFrames >>

restVars == << extVars, batchVars >>

----------------------------------------------------------------------------
(* Bounds of the model *)

MaxFrames == 3          \* frames fed to one detector between two resets
MaxTime == 2            \* largest frame timestamp, in seconds
FramePixels == 2        \* pixels of a downsized frame (width * height)
MaxResets == 1          \* reset() calls on one detector
MaxShortFrames == 2     \* frames per run where a detector is reset, saved or shared
MaxDurLen == 3          \* scenes in a list given to calculateSceneDurations
MaxLimit == 2           \* largest query.limit
MaxRtLen == 2           \* longest list given to serializeScenes
MaxThumbIndex == 1      \* largest frameIndex of a thumbnail written on its own
MaxFmtSeconds == 6100   \* largest number of seconds given to formatTimestamp

(* Generic helpers *)

Undefined == {}

Some(v) == {v}

Get(o) == CHOOSE v \in o : TRUE

RECURSIVE Fact(_)
Fact(n) == IF n <= 1 THEN 1 ELSE n * Fact(n - 1)

RECURSIVE SumOver(_, _)
SumOver(S, f) ==
    IF S = {} THEN 0
    ELSE LET x == CHOOSE y \in S : TRUE
         IN  f[x] + SumOver(S \ {x}, f)

Min(a, b) == IF a < b THEN a ELSE b

Last(s) == s[Len(s)]

----------------------------------------------------------------------------
(* calculateHistogramDifference *)

bins == 16

\* one colour channel of a pixel: Math.floor((v / 255) * (bins - 1))
Quantize(v) == (v * (bins - 1)) \div 255

\* index of an RGB pixel in the flat bins^3 histogram
BinIndex(p) == Quantize(p[1]) * bins * bins + Quantize(p[2]) * bins + Quantize(p[3])

\* data[i] ?? 0 for each channel: a pixel read past the end of the buffer is black
PixelAt(data, i) == IF i <= Len(data) THEN data[i] ELSE << 0, 0, 0 >>

\* Scores are counted in units of 1/ScoreDen; every quotient below is exact
\* for frames of at most FramePixels pixels.
ScoreDen == 20 * Fact(2 * FramePixels)

\* hist[b]  = number of i in 1..Len(data1) whose pixel of `data` falls in bin b
\* (the loop runs over data1.length for both histograms)
HistCount(data, n, b) == Cardinality({ i \in 1..n : BinIndex(PixelAt(data, i)) = b })

\* a term divided by the first histogram's value only
ChiSquareTermOfFirst(c1, c2, totalPixels) ==
    IF c1 > 0 THEN (ScoreDen * (c1 - c2) * (c1 - c2)) \div (2 * totalPixels * c1)
    ELSE 0

\* (val1 - val2)^2 / (val1 + val2) with val = count / totalPixels, halved, in
\* 1/ScoreDen units; the bins of the sum have val1 + val2 > 0
ChiSquareTerm(c1, c2, totalPixels) ==
    (ScoreDen * (c1 - c2) * (c1 - c2)) \div (2 * totalPixels * (c1 + c2))

calculateHistogramDifference(imageData1, imageData2) ==
    LET n == Len(imageData1)
        totalPixels == Len(imageData1)           \* imageData1.width * imageData1.height
        used == { BinIndex(PixelAt(imageData1, i)) : i \in 1..n }
                \cup { BinIndex(PixelAt(imageData2, i)) : i \in 1..n }
        term == [ b \in used |->
                    ChiSquareTerm(HistCount(imageData1, n, b),
                                  HistCount(imageData2, n, b), totalPixels) ]
    IN  Min(SumOver(used, term), ScoreDen)

----------------------------------------------------------------------------
(* Input domains *)

PixelValues == { << 0, 0, 0 >>, << 255, 255, 255 >> }

\* The histogram does not see where a pixel is, so one frame stands for all
\* frames with the same pixels: the pixels are listed darkest first.
Frames ==
    { f \in [ 1..FramePixels -> PixelValues ] :
        \A i \in 1..FramePixels, j \in 1..FramePixels : i < j => f[i][1] <= f[j][1] }

\* calculateHistogramDifference over the frames of the model, computed once
DifferenceOf ==
    [ a \in Frames, b \in Frames |-> calculateHistogramDifference(a, b) ]

Times == 0..MaxTime

\* options.threshold: the default 0.3 and the reachable score 1/3
Thresholds == { (3 * ScoreDen) \div 10, ScoreDen \div 3 }

\* what extractFeatureFromImage resolves to
ImageVectors == { << 1, 0 >> }

\* an absent outcome: the call throws
EmbedOutcomes == { Undefined } \cup { Some(v) : v \in ImageVectors }

\* saveThumbnailToLocalDirectory: where it fails, if it does
ThumbOutcomes == { "ok", "blobFails", "writeFails" }

\* A name is the sequence of its characters.  "c.m": a video in the scanned
\* directory itself, with its extension
VideoName == << "c", ".", "m" >>

----------------------------------------------------------------------------
(* Shot records (SceneChangePoint) *)

\* formatTimestamp: minutes and seconds of the "MM:SS" string
formatTimestamp(timestamp) ==
    [ minutes |-> timestamp \div 60, seconds |-> timestamp % 60 ]

\* the object literal pushed by processFrame; the other fields of
\* SceneChangePoint are absent
NewScene(timestamp, score, index, url, thumbnailFileName, imageFeatures) ==
    [ timestamp |-> timestamp, score |-> score, frameIndex |-> index,
      frameImageUrl |-> url, thumbnailFileName |-> thumbnailFileName,
      imageFeatures |-> imageFeatures,
      formattedTime |-> Undefined, duration |-> Undefined,
      formattedDuration |-> Undefined ]

\* videoName.replace(/\.[^/.]+$/, ''): the last "." and what follows it are cut
\* when at least one character follows and none of them is a "/"
WithoutExt(videoName) ==
    LET dots == { p \in 1..(Len(videoName) - 1) :
                    /\ videoName[p] = "."
                    /\ \A q \in (p + 1)..Len(videoName) : videoName[q] \notin { "/", "." } }
    IN  IF dots = {} THEN videoName
        ELSE SubSeq(videoName, 1, (CHOOSE p \in dots : TRUE) - 1)

\* .replace(/[/\\]/g, '_')
ReplaceSeparators(name) ==
    [ i \in 1..Len(name) |-> IF name[i] \in { "/", "\\" } THEN "_" ELSE name[i] ]

\* `${videoNameWithoutExt}_frame_${frameIndex}_${timestampStr}.jpg` with
\* timestampStr the whole seconds, zero-padded: the stem has no digits-only
\* tail that could be taken for the two numbers, so the name is given by the
\* three parts
ThumbnailFileName(videoName, index, timestamp) ==
    [ video |-> ReplaceSeparators(WithoutExt(videoName)), frame |-> index,
      time |-> timestamp ]

\* createFrameImageBlobUrl: the blob URL made for the frame at `index`
FrameImageUrl(index) == Some(index)

----------------------------------------------------------------------------
(* saveThumbnailToLocalDirectory: the directory after the call and the     *)
(* returned name, or threw = TRUE                                          *)

saveThumbnailToLocalDirectory(outcome, dir, videoName, index, timestamp) ==
    LET name == ThumbnailFileName(videoName, index, timestamp)
    IN  CASE outcome = "ok" ->
                [ dir |-> dir \cup {name}, threw |-> FALSE, name |-> Some(name) ]
          [] outcome = "blobFails" ->      \* getDirectoryHandle('thumbnails') rejects,
                                           \* or createFrameImageBlob gives null
                [ dir |-> dir, threw |-> TRUE, name |-> Undefined ]
          [] OTHER ->                      \* createWritable / write / close rejects
                                           \* after getFileHandle created the file
                [ dir |-> dir \cup {name}, threw |-> TRUE, name |-> Undefined ]

\* the same call without the try/catch around it
SaveThumbnailUncaught(outcome, dir, index, timestamp) ==
    IF hasDirectory
    THEN LET r == saveThumbnailToLocalDirectory(outcome, dir, VideoName, index, timestamp)
         IN  [ dir |-> r.dir, threw |-> r.threw, name |-> r.name, called |-> TRUE ]
    ELSE [ dir |-> dir, threw |-> FALSE, name |-> Undefined, called |-> FALSE ]

\* processFrame's guarded call: `if (parentDirectoryHandle && videoName) try ... catch`
SaveThumbnailStep(outcome, dir, index, timestamp) ==
    IF hasDirectory
    THEN LET r == saveThumbnailToLocalDirectory(outcome, dir, VideoName, index, timestamp)
         IN  [ dir |-> r.dir, threw |-> FALSE, name |-> r.name, called |-> TRUE ]
    ELSE [ dir |-> dir, threw |-> FALSE, name |-> Undefined, called |-> FALSE ]

\* the same call without the try/catch around it
ExtractFeaturesUncaught(outcome) ==
    IF imageFeatureExtractor
    THEN [ threw |-> outcome = Undefined, called |-> TRUE, imageFeatures |-> outcome ]
    ELSE [ threw |-> FALSE, called |-> FALSE, imageFeatures |-> Undefined ]

\* processFrame's guarded call: `if (imageFeatureExtractor) try ... catch`
ExtractFeaturesStep(outcome) ==
    IF imageFeatureExtractor
    THEN [ threw |-> FALSE, called |-> TRUE,
           imageFeatures |-> outcome ]
    ELSE [ threw |-> FALSE, called |-> FALSE, imageFeatures |-> Undefined ]

\* the comparison written with >=
ReachesThreshold(difference, thr) == difference >= thr

\* `difference > options.threshold`
ExceedsThreshold(difference, thr) == difference > thr

\* the counter left as it is when a boundary was emitted
NextFrameIndexOffBoundary(index, isSceneChange) ==
    IF isSceneChange THEN index ELSE index + 1

\* `frameIndex++` at the end of processFrame
NextFrameIndex(index, isSceneChange) == index + 1

\* score of the boundary emitted for the first frame
FirstFrameScore == 0

----------------------------------------------------------------------------
(* Observation record of the last call *)

\* the scenes a caller reads through a returned array
Values(array) == [ i \in 1..Len(array) |-> array[i].val ]

\* the scenes read through the array given out earlier, << >> when none was
ReturnedValues == IF returned = {} THEN << >> ELSE Values(Get(returned))

NoCall ==
    [ op |-> "none", threw |-> FALSE, first |-> FALSE,
      frame |-> Undefined, prevFed |-> Undefined, timestamp |-> -1,
      lenBefore |-> 0, indexBefore |-> 0, isSceneChange |-> FALSE,
      thumbCalled |-> FALSE, thumbOutcome |-> "none", thumbnailFileName |-> Undefined,
      embedCalled |-> FALSE, embedThrew |-> FALSE,
      result |-> Undefined,
      scenesBefore |-> << >>, returnedBefore |-> << >>, target |-> 0,
      saveOutcome |-> "none" ]

----------------------------------------------------------------------------
(* createVideoFrameSceneDetector *)

DetectorInit ==
    /\ threshold \in Thresholds
    /\ enableFeatureExtraction \in BOOLEAN
    /\ hasDirectory \in BOOLEAN
    /\ previousFrameData = {}
    /\ frameIndex = 0
    /\ lastProcessedTime = -1
    /\ isFirstFrame = TRUE
    /\ sceneChanges = << >>
    /\ imageFeatureExtractor = FALSE
    /\ isFeatureExtractorInitialized = FALSE
    /\ thumbnailsDir = {}
    /\ featuresFile = {}
    /\ returned = {}
    /\ analysisResult = {}
    /\ fedFrame = {}
    /\ lastCall = NoCall
    /\ resets = 0

\* initFeatureExtractor: the dynamic import resolves (ok) or rejects
InitFeatureExtractor ==
    /\ enableFeatureExtraction /\ ~isFeatureExtractorInitialized
    /\ \E ok \in BOOLEAN : imageFeatureExtractor' = ok
    /\ isFeatureExtractorInitialized' = TRUE
    /\ UNCHANGED << threshold, enableFeatureExtraction, hasDirectory, previousFrameData,
                    frameIndex, lastProcessedTime, isFirstFrame, sceneChanges,
                    thumbnailsDir, featuresFile, returned, analysisResult,
                    fedFrame, lastCall, resets >>

\* The effect of processFrame(frame, timestamp) on the closure state, given
\* how the thumbnail write and the embedding call turn out.
ProcessFrameEffect(frame, timestamp, thumb, embed) ==
    LET compared == ~isFirstFrame /\ previousFrameData # {}
        difference == IF compared
                      THEN DifferenceOf[Get(previousFrameData), frame]
                      ELSE 0
        isSceneChange == isFirstFrame \/ (compared /\ ExceedsThreshold(difference, threshold))
        t == IF isSceneChange
             THEN SaveThumbnailStep(thumb, thumbnailsDir, frameIndex, timestamp)
             ELSE [ dir |-> thumbnailsDir, threw |-> FALSE, name |-> Undefined,
                    called |-> FALSE ]
        e == IF isSceneChange /\ ~t.threw
             THEN ExtractFeaturesStep(embed)
             ELSE [ threw |-> FALSE, called |-> FALSE, imageFeatures |-> Undefined ]
        threw == t.threw \/ e.threw
        scene == NewScene(timestamp, IF isFirstFrame THEN FirstFrameScore ELSE difference,
                          frameIndex, FrameImageUrl(frameIndex), t.name, e.imageFeatures)
        pushed == isSceneChange /\ ~threw
    IN  [ threw |-> threw,
          lastProcessedTime |-> timestamp,
          thumbnailsDir |-> t.dir,
          sceneChanges |-> IF pushed THEN Append(sceneChanges, scene) ELSE sceneChanges,
          isFirstFrame |-> IF pushed THEN FALSE ELSE isFirstFrame,
          previousFrameData |-> IF threw THEN previousFrameData ELSE Some(frame),
          frameIndex |-> IF threw THEN frameIndex
                         ELSE NextFrameIndex(frameIndex, isSceneChange),
          isSceneChange |-> isSceneChange /\ ~threw,
          thumbnailFileName |-> IF threw THEN Undefined ELSE t.name,
          thumbCalled |-> t.called,
          thumbOutcome |-> IF t.called THEN thumb ELSE "none",
          embedCalled |-> e.called,
          embedThrew |-> e.called /\ embed = Undefined ]

\* processFrame on a detector that has taken fewer than maxFrames frames, with
\* the thumbnail write turning out as one of `thumbs`
ProcessFrameWith(maxFrames, thumbs) ==
    /\ frameIndex < maxFrames
    /\ \E frame \in Frames, timestamp \in Times,
          thumb \in thumbs, embed \in EmbedOutcomes :
        /\ timestamp >= lastProcessedTime      \* the sampler yields frames in time order
        /\ \E r \in { ProcessFrameEffect(frame, timestamp, thumb, embed) } :
               /\ lastProcessedTime' = r.lastProcessedTime
               /\ thumbnailsDir' = r.thumbnailsDir
               /\ sceneChanges' = r.sceneChanges
               /\ isFirstFrame' = r.isFirstFrame
               /\ previousFrameData' = r.previousFrameData
               /\ frameIndex' = r.frameIndex
               /\ fedFrame' = Some(frame)
               /\ lastCall' = [ NoCall EXCEPT
                                  !.op = "processFrame",
                                  !.threw = r.threw,
                                  !.first = isFirstFrame,
                                  !.frame = Some(frame),
                                  !.prevFed = fedFrame,
                                  !.timestamp = timestamp,
                                  !.lenBefore = Len(sceneChanges),
                                  !.returnedBefore = ReturnedValues,
                                  !.indexBefore = frameIndex,
                                  !.isSceneChange = r.isSceneChange,
                                  !.thumbCalled = r.thumbCalled,
                                  !.thumbOutcome = r.thumbOutcome,
                                  !.thumbnailFileName = r.thumbnailFileName,
                                  !.embedCalled = r.embedCalled,
                                  !.embedThrew = r.embedThrew ]
    /\ UNCHANGED << threshold, enableFeatureExtraction, hasDirectory,
                    imageFeatureExtractor, isFeatureExtractorInitialized,
                    featuresFile, returned, analysisResult, resets >>

ProcessFrame == ProcessFrameWith(MaxFrames, ThumbOutcomes)

\* a reset that leaves isFirstFrame as it is
ResetWithoutFirstFlag ==
    [ previousFrameData |-> {}, frameIndex |-> 0, lastProcessedTime |-> -1,
      isFirstFrame |-> isFirstFrame, sceneChanges |-> << >> ]

\* a reset that leaves the accumulated scenes
ResetWithoutClearing ==
    [ previousFrameData |-> {}, frameIndex |-> 0, lastProcessedTime |-> -1,
      isFirstFrame |-> TRUE, sceneChanges |-> sceneChanges ]

\* reset(): the values the closure variables are set to
ResetState ==
    [ previousFrameData |-> {}, frameIndex |-> 0, lastProcessedTime |-> -1,
      isFirstFrame |-> TRUE, sceneChanges |-> << >> ]

\* a returned array holds references: each element is the object itself, so it
\* is kept as [idx, val] with idx > 0 while the object is sceneChanges[idx] and
\* idx = 0 once the detector has dropped it
Detach(ret) ==
    IF ret = {} THEN {}
    ELSE Some([ i \in 1..Len(Get(ret)) |-> [ Get(ret)[i] EXCEPT !.idx = 0 ] ])

Reset ==
    /\ resets < MaxResets
    /\ resets' = resets + 1
    /\ previousFrameData' = ResetState.previousFrameData
    /\ frameIndex' = ResetState.frameIndex
    /\ lastProcessedTime' = ResetState.lastProcessedTime
    /\ isFirstFrame' = ResetState.isFirstFrame
    /\ sceneChanges' = ResetState.sceneChanges
    /\ fedFrame' = {}
    /\ returned' = Detach(returned)
    /\ lastCall' = [ NoCall EXCEPT !.op = "reset",
                                   !.returnedBefore = ReturnedValues ]
    /\ UNCHANGED << threshold, enableFeatureExtraction, hasDirectory,
                    imageFeatureExtractor, isFeatureExtractorInitialized,
                    thumbnailsDir, featuresFile, analysisResult >>

----------------------------------------------------------------------------
(* FeatureSerializationUtils and the features file *)

\* Array.from(features): a plain array of the same numbers
serializeFeatures(features) == [ i \in 1..Len(features) |-> features[i] ]

\* new Float32Array(featuresArray): the numbers of a stored vector were
\* 32-bit floats before, so each is kept
deserializeFeatures(featuresArray) == [ i \in 1..Len(featuresArray) |-> featuresArray[i] ]

\* serializeSceneChangePoint followed by JSON.stringify: frameImageUrl is not
\* copied; imageFeatures is set only `if (scene.imageFeatures)`, and an array,
\* even an empty one, is truthy
serializeSceneChangePoint(scene) ==
    [ timestamp |-> scene.timestamp, score |-> scene.score,
      frameIndex |-> scene.frameIndex, formattedTime |-> scene.formattedTime,
      thumbnailFileName |-> scene.thumbnailFileName, duration |-> scene.duration,
      formattedDuration |-> scene.formattedDuration,
      imageFeatures |-> IF scene.imageFeatures # Undefined
                        THEN Some(serializeFeatures(Get(scene.imageFeatures)))
                        ELSE Undefined ]

\* a deserialization that gives every scene a vector, empty when none was stored
deserializeWithEmptyFeatures(storedScene) ==
    [ timestamp |-> storedScene.timestamp, score |-> storedScene.score,
      frameIndex |-> storedScene.frameIndex,
      frameImageUrl |-> Undefined,
      thumbnailFileName |-> storedScene.thumbnailFileName,
      imageFeatures |-> IF storedScene.imageFeatures # Undefined
                        THEN Some(deserializeFeatures(Get(storedScene.imageFeatures)))
                        ELSE Some(<< >>),
      formattedTime |-> storedScene.formattedTime,
      duration |-> storedScene.duration,
      formattedDuration |-> storedScene.formattedDuration ]

deserializeSceneChangePoint(storedScene) ==
    [ timestamp |-> storedScene.timestamp, score |-> storedScene.score,
      frameIndex |-> storedScene.frameIndex,
      frameImageUrl |-> Undefined,
      thumbnailFileName |-> storedScene.thumbnailFileName,
      imageFeatures |-> IF storedScene.imageFeatures # Undefined
                        THEN Some(deserializeFeatures(Get(storedScene.imageFeatures)))
                        ELSE Undefined,
      formattedTime |-> storedScene.formattedTime,
      duration |-> storedScene.duration,
      formattedDuration |-> storedScene.formattedDuration ]

serializeScenes(scenes) ==
    [ i \in 1..Len(scenes) |-> serializeSceneChangePoint(scenes[i]) ]

deserializeScenes(storedScenes) ==
    [ i \in 1..Len(storedScenes) |-> deserializeSceneChangePoint(storedScenes[i]) ]

\* `${videoNameWithoutExt}.features.json`
FeaturesFileName(videoName) == [ video |-> WithoutExt(videoName) ]

\* getFileHandle(name) rejects with a TypeError a name that holds a "/"
IsValidFileName(name) == \A i \in 1..Len(name.video) : name.video[i] # "/"

SaveOutcomes == { "ok", "dirFails", "writeFails" }

\* saveFeaturesToLocalDirectory: the file after the call and the returned
\* name, or threw = TRUE.  A file is {} when absent, else {[valid, sceneChanges]};
\* a write that fails leaves the old content, or an empty (unparseable) file
\* where getFileHandle has just created it.
saveFeaturesToLocalDirectory(outcome, file, scenes, videoName) ==
    CASE ~IsValidFileName(FeaturesFileName(videoName)) ->
            [ file |-> file, threw |-> TRUE, name |-> Undefined ]
      [] outcome = "ok" ->
            [ file |-> Some([ valid |-> TRUE, sceneChanges |-> serializeScenes(scenes) ]),
              threw |-> FALSE, name |-> Some(FeaturesFileName(videoName)) ]
      [] outcome = "dirFails" ->
            [ file |-> file, threw |-> TRUE, name |-> Undefined ]
      [] OTHER ->
            [ file |-> IF file = {}
                       THEN Some([ valid |-> FALSE, sceneChanges |-> << >> ])
                       ELSE file,
              threw |-> TRUE, name |-> Undefined ]

\* loadFeaturesFromLocalDirectory: {} for null, else {scenes}
loadFeaturesFromLocalDirectory(readOk, file) ==
    IF readOk /\ file # {} /\ Get(file).valid
    THEN Some(deserializeScenes(Get(file).sceneChanges))
    ELSE Undefined

----------------------------------------------------------------------------
(* calculateSceneDurations *)

\* every scene measured to the end of the video
SceneDurationToEnd(scenes, index, videoDuration) ==
    IF videoDuration # Undefined
    THEN Get(videoDuration) - scenes[index].timestamp
    ELSE 0

\* the last scene always given 0, as if the video's length were unknown
SceneDurationLastZero(scenes, index, videoDuration) ==
    IF index < Len(scenes)
    THEN scenes[index + 1].timestamp - scenes[index].timestamp
    ELSE 0

\* duration of the scene at `index` (1-based) of `scenes`
SceneDuration(scenes, index, videoDuration) ==
    IF index < Len(scenes)
    THEN scenes[index + 1].timestamp - scenes[index].timestamp
    ELSE IF videoDuration # Undefined
         THEN Get(videoDuration) - scenes[index].timestamp
         ELSE 0

calculateSceneDurations(scenes, videoDuration) ==
    IF Len(scenes) = 0
    THEN scenes
    ELSE [ index \in 1..Len(scenes) |->
             LET duration == SceneDuration(scenes, index, videoDuration)
             IN  [ scenes[index] EXCEPT
                     !.duration = Some(duration),
                     !.formattedDuration =
                         IF duration > 0 THEN Some(formatTimestamp(duration))
                         ELSE Undefined ] ]

----------------------------------------------------------------------------
(* finishAnalysis, loadSavedFeatures, getSceneChanges *)

\* finishAnalysis(): the features file after the call and the returned name
\* a finishAnalysis that saves without looking for a feature vector
FinishAnalysisAlwaysSaving(outcome) ==
    IF hasDirectory /\ Len(sceneChanges) > 0
    THEN LET r == saveFeaturesToLocalDirectory(outcome, featuresFile, sceneChanges, VideoName)
         IN  [ file |-> r.file, result |-> IF r.threw THEN Undefined ELSE r.name,
               saved |-> TRUE ]
    ELSE [ file |-> featuresFile, result |-> Undefined, saved |-> FALSE ]

FinishAnalysisEffect(outcome) ==
    IF hasDirectory /\ Len(sceneChanges) > 0
       /\ \E i \in 1..Len(sceneChanges) : sceneChanges[i].imageFeatures # Undefined
    THEN LET r == saveFeaturesToLocalDirectory(outcome, featuresFile, sceneChanges, VideoName)
         IN  [ file |-> r.file, result |-> IF r.threw THEN Undefined ELSE r.name,
               saved |-> TRUE ]
    ELSE [ file |-> featuresFile, result |-> Undefined, saved |-> FALSE ]

FinishAnalysis ==
    /\ \E outcome \in SaveOutcomes :
         \E r \in { FinishAnalysisEffect(outcome) } :
             /\ featuresFile' = r.file
             /\ lastCall' = [ NoCall EXCEPT !.op = "finishAnalysis",
                                            !.result = r.result,
                                            !.scenesBefore = sceneChanges,
                                            !.saveOutcome = outcome ]
    /\ UNCHANGED << threshold, enableFeatureExtraction, hasDirectory, previousFrameData,
                    frameIndex, lastProcessedTime, isFirstFrame, sceneChanges,
                    imageFeatureExtractor, isFeatureExtractorInitialized,
                    thumbnailsDir, returned, analysisResult, fedFrame, resets >>

LoadSavedFeatures ==
    /\ \E readOk \in BOOLEAN :
         LET savedScenes == IF hasDirectory
                            THEN loadFeaturesFromLocalDirectory(readOk, featuresFile)
                            ELSE Undefined
         IN  IF savedScenes # Undefined
             THEN /\ sceneChanges' = Get(savedScenes)
                  /\ returned' = Detach(returned)
                  /\ lastCall' = [ NoCall EXCEPT !.op = "loadSavedFeatures",
                                                 !.result = Some("true"),
                                                 !.returnedBefore = ReturnedValues ]
             ELSE /\ UNCHANGED << sceneChanges, returned >>
                  /\ lastCall' = [ NoCall EXCEPT !.op = "loadSavedFeatures",
                                                 !.result = Some("false") ]
    /\ UNCHANGED << threshold, enableFeatureExtraction, hasDirectory, previousFrameData,
                    frameIndex, lastProcessedTime, isFirstFrame,
                    imageFeatureExtractor, isFeatureExtractorInitialized,
                    thumbnailsDir, featuresFile, analysisResult, fedFrame, resets >>

\* getStats()
getStats ==
    [ totalFramesProcessed |-> frameIndex, scenesDetected |-> Len(sceneChanges),
      lastProcessedTime |-> lastProcessedTime ]

\* a new array of copies of the objects
getSceneChangesCloned ==
    [ i \in 1..Len(sceneChanges) |-> [ idx |-> 0, val |-> sceneChanges[i] ] ]

\* getSceneChanges(): [...sceneChanges], a new array of the same objects
getSceneChanges ==
    [ i \in 1..Len(sceneChanges) |-> [ idx |-> i, val |-> sceneChanges[i] ] ]

GetSceneChanges ==
    /\ returned' = Some(getSceneChanges)
    /\ lastCall' = [ NoCall EXCEPT !.op = "getSceneChanges" ]
    /\ UNCHANGED << threshold, enableFeatureExtraction, hasDirectory, previousFrameData,
                    frameIndex, lastProcessedTime, isFirstFrame, sceneChanges,
                    imageFeatureExtractor, isFeatureExtractorInitialized,
                    thumbnailsDir, featuresFile, analysisResult, fedFrame, resets >>

----------------------------------------------------------------------------
(* detectScenes: what follows the frame loop of one video *)

Max(a, b) == IF a > b THEN a ELSE b

\* videoDuration = Math.max(videoDuration, sample.timestamp) over the frames
\* fed so far, starting from 0; the frames arrive in time order
VideoDuration == Max(0, lastProcessedTime)

\* the VideoAnalysisResult registered for the video
AnalysisResultOf(scenes, videoDuration) ==
    LET scenesWithDuration == calculateSceneDurations(scenes, Some(videoDuration))
    IN  [ videoName |-> VideoName,
          totalScenes |-> Len(scenesWithDuration),
          duration |-> videoDuration,
          sceneChanges |->
              [ i \in 1..Len(scenesWithDuration) |->
                  [ scenesWithDuration[i] EXCEPT
                      !.formattedTime =
                          Some(formatTimestamp(scenesWithDuration[i].timestamp)) ] ] ]

CompleteVideo ==
    /\ \E outcome \in SaveOutcomes :
         \E scenes \in { Values(getSceneChanges) }, r \in { FinishAnalysisEffect(outcome) } :
             /\ featuresFile' = r.file
             /\ analysisResult' = Some(AnalysisResultOf(scenes, VideoDuration))
             /\ lastCall' = [ NoCall EXCEPT !.op = "completeVideo",
                                            !.result = r.result ]
    /\ UNCHANGED << threshold, enableFeatureExtraction, hasDirectory, previousFrameData,
                    frameIndex, lastProcessedTime, isFirstFrame, sceneChanges,
                    imageFeatureExtractor, isFeatureExtractorInitialized,
                    thumbnailsDir, returned, fedFrame, resets >>

----------------------------------------------------------------------------
(* A caller that keeps the array getSceneChanges returned and changes it *)

\* array.pop()
CallerPop ==
    /\ returned # {} /\ Len(Get(returned)) > 0
    /\ returned' = Some(SubSeq(Get(returned), 1, Len(Get(returned)) - 1))
    /\ lastCall' = [ NoCall EXCEPT !.op = "callerPop",
                                   !.scenesBefore = sceneChanges ]
    /\ UNCHANGED << threshold, enableFeatureExtraction, hasDirectory, previousFrameData,
                    frameIndex, lastProcessedTime, isFirstFrame, sceneChanges,
                    imageFeatureExtractor, isFeatureExtractorInitialized,
                    thumbnailsDir, featuresFile, analysisResult, fedFrame, resets >>

\* array[i].duration = 0: a write to a scene object reached through the array.
\* The object is the detector's own while it is still in sceneChanges.
CallerWriteScene ==
    /\ returned # {}
    /\ \E i \in 1..Len(Get(returned)) :
         LET array == Get(returned)
             written == [ array[i].val EXCEPT !.duration = Some(0) ]
         IN  /\ returned' = Some([ array EXCEPT ![i].val = written ])
             /\ sceneChanges' = IF array[i].idx > 0
                                THEN [ sceneChanges EXCEPT ![array[i].idx] = written ]
                                ELSE sceneChanges
             /\ lastCall' = [ NoCall EXCEPT !.op = "callerWriteScene",
                                            !.scenesBefore = sceneChanges,
                                            !.target = array[i].idx ]
    /\ UNCHANGED << threshold, enableFeatureExtraction, hasDirectory, previousFrameData,
                    frameIndex, lastProcessedTime, isFirstFrame,
                    imageFeatureExtractor, isFeatureExtractorInitialized,
                    thumbnailsDir, featuresFile, analysisResult, fedFrame, resets >>

----------------------------------------------------------------------------
(* calculateSceneDurations on arbitrary ordered lists *)

DurTimes == { 0, 5, 12 }

DurTotals == { Undefined, Some(5), Some(12), Some(20) }

\* ordered lists of at most MaxDurLen scenes, as a detector builds them
DurLists ==
    UNION { { [ i \in 1..n |-> NewScene(ts[i], 0, i - 1, FrameImageUrl(i - 1),
                                        Undefined, Undefined) ] :
                ts \in { t \in [ 1..n -> DurTimes ] :
                           \A i \in 1..n, j \in 1..n : i < j => t[i] <= t[j] } } :
            n \in 0..MaxDurLen }

DurInit ==
    /\ durIn \in DurLists
    /\ durTotal \in DurTotals
    /\ durOut = {}
    /\ durOrig = durIn

DurIdle == durIn = << >> /\ durTotal = {} /\ durOut = {} /\ durOrig = << >>

\* scenesWithDuration = calculateSceneDurations(sceneChanges, videoDuration);
\* map and spread build new objects, the argument keeps its elements
ApplyDurations ==
    /\ durOut = {}
    /\ durOut' = Some(calculateSceneDurations(durIn, durTotal))
    /\ UNCHANGED << durIn, durTotal, durOrig >>

----------------------------------------------------------------------------
(* CLIPTextExtractor.calculateTextImageSimilarity                          *)
(* A similarity is an integer number of 1/SimDen units.  The vectors of    *)
(* the model have whole-number lengths, so normalization and the dot       *)
(* product are exact: a normalized vector is [num, den], standing for      *)
(* num[i] / den.                                                           *)

SimDen == 2 * 25

RECURSIVE DotFrom(_, _, _)
DotFrom(a, b, i) == IF i > Len(a) THEN 0 ELSE a[i] * b[i] + DotFrom(a, b, i + 1)

Dot(a, b) == DotFrom(a, b, 1)

\* Math.sqrt of a perfect square
Sqrt(n) == CHOOSE r \in 0..n : r * r = n

Magnitude(features) == Sqrt(Dot(features, features))

normalizeFeatures(features) ==
    LET norm == Magnitude(features)
    IN  IF norm = 0
        THEN [ num |-> [ i \in 1..Len(features) |-> 0 ], den |-> 1 ]
        ELSE [ num |-> features, den |-> norm ]

\* Math.abs(magnitude - 1.0) > 0.01, for a whole-number magnitude
NeedsNormalization(magnitude) == magnitude # 1

\* the cosine itself, between -1 and 1
CosineItself(clamped, den) == (SimDen * clamped) \div den

\* (dotProduct + 1) / 2 for the dot product clamped / den
ToUnitRange(clamped, den) == (SimDen * (clamped + den)) \div (2 * den)

\* {} when it throws, else {similarity}
calculateTextImageSimilarity(textFeatures, imageFeatures) ==
    IF Len(textFeatures) # Len(imageFeatures)
    THEN Undefined
    ELSE LET t == IF NeedsNormalization(Magnitude(textFeatures))
                  THEN normalizeFeatures(textFeatures)
                  ELSE [ num |-> textFeatures, den |-> 1 ]
             m == IF NeedsNormalization(Magnitude(imageFeatures))
                  THEN normalizeFeatures(imageFeatures)
                  ELSE [ num |-> imageFeatures, den |-> 1 ]
             den == t.den * m.den
             dotProduct == Dot(t.num, m.num)             \* in 1/den units
             \* Math.max(-1, Math.min(1, dotProduct))
             clamped == IF dotProduct > den THEN den
                        ELSE IF dotProduct < -den THEN -den ELSE dotProduct
         IN  Some(ToUnitRange(clamped, den))

----------------------------------------------------------------------------
(* TextSearchService.searchByText *)

\* for (const [videoName, scenes] of allScenes) for (const scene of scenes):
\* the scenes in iteration order
RECURSIVE Flatten(_)
Flatten(allScenes) ==
    IF allScenes = << >> THEN << >>
    ELSE [ i \in 1..Len(Head(allScenes).scenes) |->
             [ videoName |-> Head(allScenes).videoName,
               scene |-> Head(allScenes).scenes[i] ] ]
         \o Flatten(Tail(allScenes))

\* videoNames.length > 0 && !videoNames.includes(videoName) -> continue
InScope(videoNames, videoName) ==
    Len(videoNames) = 0 \/ \E i \in 1..Len(videoNames) : videoNames[i] = videoName

\* similarity >= minSimilarity
MeetsThreshold(similarity, minSimilarity) == similarity >= minSimilarity

\* the result pushed for one scene, {} when the scene is passed over
ResultFor(entry, query) ==
    IF ~InScope(query.videoNames, entry.videoName) THEN {}
    ELSE IF entry.scene.imageFeatures = Undefined THEN {}
    ELSE LET similarity == calculateTextImageSimilarity(Get(query.queryFeatures),
                                                        Get(entry.scene.imageFeatures))
         IN  IF similarity = Undefined THEN {}        \* caught, logged, next scene
             ELSE IF MeetsThreshold(Get(similarity), query.minSimilarity)
                  THEN Some([ videoName |-> entry.videoName, scene |-> entry.scene,
                              similarity |-> Get(similarity) ])
                  ELSE {}

RECURSIVE CollectResults(_, _)
CollectResults(entries, query) ==
    IF entries = << >> THEN << >>
    ELSE LET r == ResultFor(Head(entries), query)
         IN  (IF r = {} THEN << >> ELSE << Get(r) >>)
             \o CollectResults(Tail(entries), query)

\* an insertion that puts an element before those that compare equal to it
InsertBeforeEqual(sorted, x) ==
    LET k == Cardinality({ i \in 1..Len(sorted) : sorted[i].similarity > x.similarity })
    IN  SubSeq(sorted, 1, k) \o << x >> \o SubSeq(sorted, k + 1, Len(sorted))

\* results.sort((a, b) => b.similarity - a.similarity): Array.prototype.sort is
\* stable, so an element goes behind those that compare equal to it
InsertBySimilarity(sorted, x) ==
    LET k == Cardinality({ i \in 1..Len(sorted) : sorted[i].similarity >= x.similarity })
    IN  SubSeq(sorted, 1, k) \o << x >> \o SubSeq(sorted, k + 1, Len(sorted))

RECURSIVE SortFrom(_, _)
SortFrom(sorted, rest) ==
    IF rest = << >> THEN sorted
    ELSE SortFrom(InsertBySimilarity(sorted, Head(rest)), Tail(rest))

SortBySimilarity(results) == SortFrom(<< >>, results)

\* results.slice(0, limit), limit >= 0
Slice(results, limit) == SubSeq(results, 1, Min(limit, Len(results)))

\* [threw, results]: threw when extractFeatureFromText rejects
searchByText(query, allScenes) ==
    IF query.blank                                   \* !text.trim()
    THEN [ threw |-> FALSE, results |-> << >> ]
    ELSE IF query.queryFeatures = Undefined
         THEN [ threw |-> TRUE, results |-> << >> ]
         ELSE [ threw |-> FALSE,
                results |-> Slice(SortBySimilarity(CollectResults(Flatten(allScenes), query)),
                                  query.limit) ]

(* the queries and scene maps of the model *)

SearchVectors == { << 1, 0 >>, << 0, 1 >>, << 3, 4 >>, << 1, 0, 0 >> }

QueryVectors == { << 1, 0 >>, << 3, 4 >> }

\* the default 0.2, and 0.8 = similarity of (1,0) and (3,4)
MinSimilarities == { SimDen \div 5, (4 * SimDen) \div 5 }

SceneFeatures == { Undefined } \cup { Some(v) : v \in SearchVectors }

SearchScene(index, features) ==
    NewScene(index, 0, index, FrameImageUrl(index), Undefined, features)

\* a Map with two videos, of two scenes and of one
SceneMaps ==
    { << [ videoName |-> "a.mp4", scenes |-> << SearchScene(0, f1), SearchScene(1, f2) >> ],
         [ videoName |-> "b.mp4", scenes |-> << SearchScene(0, f3) >> ] >> :
        f1 \in SceneFeatures, f2 \in SceneFeatures, f3 \in SceneFeatures }

Queries ==
    [ blank : BOOLEAN,
      limit : 0..MaxLimit,
      minSimilarity : MinSimilarities,
      videoNames : { << >>, << "a.mp4" >>, << "b.mp4" >> },
      queryFeatures : { Undefined } \cup { Some(v) : v \in QueryVectors } ]

NoQuery ==
    [ blank |-> TRUE, limit |-> 0, minSimilarity |-> 0, videoNames |-> << >>,
      queryFeatures |-> Undefined ]

SrchInit ==
    /\ srchScenes \in SceneMaps
    /\ srchQuery \in Queries
    /\ srchOut = {}

SrchIdle == srchScenes = << >> /\ srchQuery = NoQuery /\ srchOut = {}

SearchByText ==
    /\ srchOut = {}
    /\ srchOut' = Some(searchByText(srchQuery, srchScenes))
    /\ UNCHANGED << srchScenes, srchQuery >>

----------------------------------------------------------------------------
(* FeatureSerializationUtils applied to arbitrary scene lists *)

\* scenes as a detector and calculateSceneDurations leave them: with and
\* without blob URL, thumbnail, embedding (also an empty one) and duration
RtScenes(index) ==
    { [ NewScene(index, 0, index, url, thumbnailFileName, imageFeatures)
          EXCEPT !.duration = duration ] :
        url \in { Undefined, FrameImageUrl(index) },
        thumbnailFileName \in { Undefined, Some(ThumbnailFileName(VideoName, index, index)) },
        imageFeatures \in { Undefined, Some(<< >>), Some(<< 1, 0 >>) },
        duration \in { Undefined, Some(5) } }

RtLists ==
    UNION { { s \in [ 1..n -> UNION { RtScenes(k) : k \in 0..(n - 1) } ] :
                \A i \in 1..n : s[i].frameIndex = i - 1 } :
            n \in 0..MaxRtLen }

RtInit == rtIn \in RtLists /\ rtOut = {}

RtIdle == rtIn = << >> /\ rtOut = {}

\* deserializeScenes(serializeScenes(scenes))
RoundTrip ==
    /\ rtOut = {}
    /\ rtOut' = Some(deserializeScenes(serializeScenes(rtIn)))
    /\ UNCHANGED rtIn

----------------------------------------------------------------------------
(* calculateHistogramDifference applied to arbitrary pairs of frames *)

\* frames of 1 to FramePixels pixels, in every order of their pixels
HistPixels == PixelValues \cup { << 255, 0, 0 >> }

HistFrames == UNION { [ 1..n -> HistPixels ] : n \in 1..FramePixels }

HistInit == histIn \in HistFrames \X HistFrames /\ histOut = {}

HistIdle == histIn = << >> /\ histOut = {}

\* the function called on the two frames in both orders and on each with itself
CompareFrames ==
    /\ histOut = {}
    /\ histOut' = Some([ ab |-> calculateHistogramDifference(histIn[1], histIn[2]),
                         ba |-> calculateHistogramDifference(histIn[2], histIn[1]),
                         aa |-> calculateHistogramDifference(histIn[1], histIn[1]),
                         bb |-> calculateHistogramDifference(histIn[2], histIn[2]) ])
    /\ UNCHANGED histIn

----------------------------------------------------------------------------
(* calculateTextImageSimilarity applied to arbitrary pairs of vectors *)

\* embedding vectors of whole-number length: of length 1 and 5, the zero
\* vector, the empty vector and a vector of another dimension
SimVectors ==
    { << >>, << 0, 0 >>, << 1, 0 >>, << 0, 1 >>, << -1, 0 >>, << 3, 4 >>, << 4, 3 >>,
      << -3, -4 >>, << 4, -3 >>, << 0, 5 >>, << 1, 0, 0 >>, << 0, 0, 0 >> }

SimInit == simIn \in SimVectors \X SimVectors /\ simOut = {}

SimIdle == simIn = << >> /\ simOut = {}

\* the function called on the pair and on the first vector with itself; each
\* is {} when the call throws
CompareVectors ==
    /\ simOut = {}
    /\ simOut' = Some([ ab |-> calculateTextImageSimilarity(simIn[1], simIn[2]),
                        aa |-> calculateTextImageSimilarity(simIn[1], simIn[1]) ])
    /\ UNCHANGED simIn

----------------------------------------------------------------------------
(* formatTimestamp as the string it builds.  A timestamp is a whole number *)
(* of 1/TimeDen seconds, so that seconds with a fraction are covered.      *)

TimeDen == 2             \* timestamps given to formatTimestamp are multiples of 1/TimeDen s

DigitChar(d) == << "0", "1", "2", "3", "4", "5", "6", "7", "8", "9" >>[d + 1]

\* Number.prototype.toString of a whole number that is not negative
RECURSIVE ToDigits(_)
ToDigits(n) ==
    IF n < 10 THEN << DigitChar(n) >>
    ELSE Append(ToDigits(n \div 10), DigitChar(n % 10))

\* a string left as it is
NoPad(str, targetLength, padChar) == str

\* String.prototype.padStart with a pad string of one character
padStart(str, targetLength, padChar) ==
    IF Len(str) >= targetLength THEN str
    ELSE [ i \in 1..(targetLength - Len(str)) |-> padChar ] \o str

\* formatTimestamp(num / TimeDen): Math.floor(timestamp / 60) and
\* Math.floor(timestamp % 60), each padded to two digits
formatTimestampString(num) ==
    LET minutes == num \div (60 * TimeDen)
        seconds == (num % (60 * TimeDen)) \div TimeDen
    IN  padStart(ToDigits(minutes), 2, "0") \o << ":" >> \o padStart(ToDigits(seconds), 2, "0")

FmtInit == fmtIn \in 0..(MaxFmtSeconds * TimeDen) /\ fmtOut = {}

FmtIdle == fmtIn = 0 /\ fmtOut = {}

FormatTimestamp ==
    /\ fmtOut = {}
    /\ fmtOut' = Some(formatTimestampString(fmtIn))
    /\ UNCHANGED fmtIn

----------------------------------------------------------------------------
(* The scanned directory: thumbnails/ and features/ with several videos    *)
(* A directory is {} while it does not exist, else {the set of its files}. *)

\* "a.m", "s/b.m" (in a sub-directory) and "s_b.m": relativePath of the
\* videos getAllVideoFiles finds
Videos ==
    { << "a", ".", "m" >>, << "s", "/", "b", ".", "m" >>, << "s", "_", "b", ".", "m" >> }

\* the files of a directory, none when it does not exist
FilesOf(dir) == IF dir = Undefined THEN {} ELSE Get(dir)

\* saveThumbnailToLocalDirectory on the directory: getDirectoryHandle with
\* create, which may reject, then the file
SaveThumbnailIn(outcome, dir, videoName, index, timestamp) ==
    IF outcome = "dirFails"
    THEN [ dir |-> dir, threw |-> TRUE, name |-> Undefined ]
    ELSE LET r == saveThumbnailToLocalDirectory(outcome, FilesOf(dir), videoName,
                                                index, timestamp)
         IN  [ dir |-> Some(r.dir), threw |-> r.threw, name |-> r.name ]

\* a load whose errors are not caught
loadThumbnailUncaught(dir, thumbnailFileName, readOk) ==
    IF dir # Undefined /\ thumbnailFileName \in Get(dir) /\ readOk
    THEN [ threw |-> FALSE, result |-> Some(thumbnailFileName) ]
    ELSE [ threw |-> TRUE, result |-> Undefined ]

\* loadThumbnailFromLocalDirectory: the blob URL of the file, null ({}) when
\* getDirectoryHandle, getFileHandle or getFile rejects
loadThumbnailFromLocalDirectory(dir, thumbnailFileName, readOk) ==
    IF dir # Undefined /\ thumbnailFileName \in Get(dir) /\ readOk
    THEN [ threw |-> FALSE, result |-> Some(thumbnailFileName) ]
    ELSE [ threw |-> FALSE, result |-> Undefined ]

\* the file of features/ with this name, as {} or {[valid, sceneChanges]}
FeaturesFileIn(dir, name) ==
    { [ valid |-> f.valid, sceneChanges |-> f.sceneChanges ] :
        f \in { g \in FilesOf(dir) : g.name = name } }

\* saveFeaturesToLocalDirectory on the directory
SaveFeaturesIn(outcome, dir, scenes, videoName) ==
    IF outcome = "dirFails"
    THEN [ dir |-> dir, threw |-> TRUE, name |-> Undefined ]
    ELSE LET name == FeaturesFileName(videoName)
             r == saveFeaturesToLocalDirectory(outcome, FeaturesFileIn(dir, name),
                                               scenes, videoName)
             others == { g \in FilesOf(dir) : g.name # name }
         IN  [ dir |-> Some(others \cup
                            { [ name |-> name, valid |-> f.valid,
                                sceneChanges |-> f.sceneChanges ] : f \in r.file }),
               threw |-> r.threw, name |-> r.name ]

\* loadFeaturesFromLocalDirectory on the directory
LoadFeaturesIn(dir, videoName, readOk) ==
    loadFeaturesFromLocalDirectory(readOk, FeaturesFileIn(dir, FeaturesFileName(videoName)))

\* the scene lists saved: one scene with its blob URL, with or without
\* embedding, or two scenes
SavedLists ==
    { << NewScene(0, 0, 0, FrameImageUrl(0), Undefined, f) >> : f \in EmbedOutcomes }
    \cup { << NewScene(0, 0, 0, Undefined, Undefined, Undefined),
              NewScene(1, ScoreDen, 1, Undefined, Undefined, Undefined) >> }

NoIo ==
    [ op |-> "none", videoName |-> << >>, frameIndex |-> 0, scenes |-> << >>,
      outcome |-> "none", threw |-> FALSE, result |-> Undefined,
      gcRan |-> FALSE, hasChanges |-> FALSE, deleted |-> {}, removed |-> {},
      failing |-> {}, changedBefore |-> FALSE, keptBefore |-> {},
      repeated |-> FALSE, stateKept |-> FALSE ]

FilesInit ==
    /\ thumbnails = Undefined
    /\ featuresDir = Undefined
    /\ writers = {}
    /\ lastIo = NoIo

\* what thumbnails/ can be when the directory is opened: absent, or holding
\* any of the thumbnails of the videos
ThumbnailDirs ==
    { Undefined } \cup
    { Some(files) :
        files \in SUBSET { ThumbnailFileName(v, i, 0) : v \in Videos, i \in 0..MaxThumbIndex } }

\* the content of a features file: not parseable, or a saved list
FeaturesContents ==
    { [ valid |-> FALSE, sceneChanges |-> << >> ] }
    \cup { [ valid |-> TRUE, sceneChanges |-> serializeScenes(scenes) ] :
             scenes \in SavedLists }

\* what features/ can be when the directory is opened: absent, or holding
\* files of some of the videos
FeaturesDirs ==
    { Undefined } \cup
    { Some({ [ name |-> FeaturesFileName(v), valid |-> content[v].valid,
               sceneChanges |-> content[v].sceneChanges ] : v \in present }) :
        present \in SUBSET { v \in Videos : IsValidFileName(FeaturesFileName(v)) },
        content \in [ Videos -> FeaturesContents ] }

\* a directory that is opened with whatever it holds
OpenedInit ==
    /\ thumbnails \in ThumbnailDirs
    /\ featuresDir \in FeaturesDirs
    /\ writers = {}
    /\ lastIo = NoIo

SaveThumbnail ==
    \E outcome \in ThumbOutcomes \cup { "dirFails" }, videoName \in Videos,
       index \in 0..MaxThumbIndex :
        \E r \in { SaveThumbnailIn(outcome, thumbnails, videoName, index, 0) } :
            /\ thumbnails' = r.dir
            /\ writers' = IF r.threw THEN writers
                          ELSE writers \cup { [ name |-> Get(r.name), videoName |-> videoName,
                                                frameIndex |-> index ] }
            /\ lastIo' = [ NoIo EXCEPT !.op = "saveThumbnail", !.videoName = videoName,
                                       !.frameIndex = index, !.outcome = outcome,
                                       !.threw = r.threw, !.result = r.name ]
            /\ UNCHANGED featuresDir

LoadThumbnail ==
    \E videoName \in Videos, index \in 0..MaxThumbIndex, readOk \in BOOLEAN :
        \E r \in { loadThumbnailFromLocalDirectory(thumbnails,
                       ThumbnailFileName(videoName, index, 0), readOk) } :
            /\ lastIo' = [ NoIo EXCEPT !.op = "loadThumbnail", !.videoName = videoName,
                                       !.frameIndex = index,
                                       !.outcome = IF readOk THEN "ok" ELSE "readFails",
                                       !.threw = r.threw, !.result = r.result ]
            /\ UNCHANGED << thumbnails, featuresDir, writers >>

SaveFeatures ==
    \E outcome \in SaveOutcomes, videoName \in Videos, scenes \in SavedLists :
        \E r \in { SaveFeaturesIn(outcome, featuresDir, scenes, videoName) } :
            /\ featuresDir' = r.dir
            /\ lastIo' = [ NoIo EXCEPT !.op = "saveFeatures", !.videoName = videoName,
                                       !.scenes = scenes, !.outcome = outcome,
                                       !.threw = r.threw, !.result = r.name ]
            /\ UNCHANGED << thumbnails, writers >>

LoadFeatures ==
    \E videoName \in Videos, readOk \in BOOLEAN :
        \E r \in { LoadFeaturesIn(featuresDir, videoName, readOk) } :
            /\ lastIo' = [ NoIo EXCEPT !.op = "loadFeatures", !.videoName = videoName,
                                       !.outcome = IF readOk THEN "ok" ELSE "readFails",
                                       !.result = r ]
            /\ UNCHANGED << thumbnails, featuresDir, writers >>

----------------------------------------------------------------------------
(* index.vue: the analysis results of the directory and their clean-up     *)
(* sceneAnalysisResults and the stored results of the directory are        *)
(* functions from relativePath to result.                                  *)

Restrict(results, keys) == [ k \in (DOMAIN results) \cap keys |-> results[k] ]

NoResults == << >>

\* the thumbnailFileName values of the scenes of the results
ThumbnailNamesOf(results) ==
    UNION { { Get(results[k].sceneChanges[i].thumbnailFileName) :
                i \in { j \in 1..Len(results[k].sceneChanges) :
                          results[k].sceneChanges[j].thumbnailFileName # Undefined } } :
            k \in DOMAIN results }

\* the names to keep taken from the stored results only
ValidFromStoredOnly(remaining, updatedStoredResults) ==
    ThumbnailNamesOf(updatedStoredResults)

\* validThumbnailFiles: the names in the runtime results and in the stored
\* results that remain
ValidThumbnailFiles(remaining, updatedStoredResults) ==
    ThumbnailNamesOf(remaining) \cup ThumbnailNamesOf(updatedStoredResults)

\* thumbnails cleaned in every run
CleansAlways(hasChanges) == TRUE

\* `if (hasChanges)` around the removal of thumbnails
CleansThumbnails(hasChanges) == hasChanges

\* the stored results never written back
StoredKept(hasChanges, updatedStoredResults, stored) == stored

\* `if (hasChanges) storedSceneAnalysisResults.value[directoryKey] = updatedStoredResults`
StoredAfterCleanup(hasChanges, updatedStoredResults, stored) ==
    IF hasChanges THEN Some(updatedStoredResults) ELSE stored

\* cleanupMissingVideoResults in a directory that is open: `existing` is what
\* getAllVideoFiles lists, `failing` the files whose removeEntry rejects.
\* Without stored results for the directory it returns at once.  The result
\* has the results and thumbnails/ after the run, the thumbnails deleted, the
\* removals that failed and the videos whose records were removed.
cleanupMissingVideoResults(existing, runtime, stored, dir, failing) ==
    IF stored = Undefined
    THEN [ runtime |-> runtime, stored |-> stored, dir |-> dir, hasChanges |-> FALSE,
           deleted |-> {}, failed |-> {}, removed |-> {} ]
    ELSE LET storedResults == Get(stored)
             updatedStoredResults == Restrict(storedResults, existing)
             remaining == Restrict(runtime, existing)
             removed == ((DOMAIN storedResults) \cup (DOMAIN runtime)) \ existing
             hasChanges == removed # {}
             validThumbnailFiles == ValidThumbnailFiles(remaining, updatedStoredResults)
             \* getDirectoryHandle('thumbnails') rejects when there is none
             unreferenced == IF CleansThumbnails(hasChanges) /\ dir # Undefined
                             THEN Get(dir) \ validThumbnailFiles
                             ELSE {}
             deleted == unreferenced \ failing
         IN  [ runtime |-> remaining,
               stored |-> StoredAfterCleanup(hasChanges, updatedStoredResults, stored),
               dir |-> IF dir = Undefined THEN dir ELSE Some(Get(dir) \ deleted),
               hasChanges |-> hasChanges, deleted |-> deleted,
               failed |-> unreferenced \cap failing, removed |-> removed ]

\* saveSceneAnalysisResults: every runtime result in its stored form, which
\* has no frameImageUrl; nothing is written when there is no result
StoredResultOf(result) ==
    [ result EXCEPT !.sceneChanges =
        [ i \in 1..Len(result.sceneChanges) |->
            [ result.sceneChanges[i] EXCEPT !.frameImageUrl = Undefined ] ] ]

saveSceneAnalysisResults(runtime, stored) ==
    IF DOMAIN runtime # {}
    THEN Some([ k \in DOMAIN runtime |-> StoredResultOf(runtime[k]) ])
    ELSE stored

\* loadStoredSceneAnalysisResults, before its clean-up: each stored result is
\* put over the runtime result of its video, the blob URLs made from the
\* thumbnails that can be read
RuntimeResultOf(storedResult, dir) ==
    [ storedResult EXCEPT !.sceneChanges =
        [ i \in 1..Len(storedResult.sceneChanges) |->
            LET scene == storedResult.sceneChanges[i]
            IN  [ scene EXCEPT !.frameImageUrl =
                    IF /\ scene.thumbnailFileName # Undefined
                       /\ loadThumbnailFromLocalDirectory(
                              dir, Get(scene.thumbnailFileName), TRUE).result # Undefined
                    THEN FrameImageUrl(scene.frameIndex)
                    ELSE Undefined ] ] ]

LoadedResults(runtime, stored, dir) ==
    [ k \in (DOMAIN runtime) \cup (DOMAIN Get(stored)) |->
        IF k \in DOMAIN Get(stored) THEN RuntimeResultOf(Get(stored)[k], dir)
        ELSE runtime[k] ]

\* the thumbnail outcomes of the boundaries of one analysis of a video: what
\* the video holds and how the writes go differs from one analysis to the next
AnalysisRuns == { << "ok" >>, << "writeFails" >>, << "ok", "ok" >> }

\* the frame loop of detectScenes on one video: each boundary writes its
\* thumbnail; [dir, scenes]
RECURSIVE AnalysisFrom(_, _, _, _)
AnalysisFrom(videoName, run, dir, scenes) ==
    IF Len(scenes) = Len(run) THEN [ dir |-> dir, scenes |-> scenes ]
    ELSE LET index == Len(scenes)
             r == SaveThumbnailIn(run[index + 1], dir, videoName, index, index)
         IN  AnalysisFrom(videoName, run, r.dir,
                          Append(scenes, NewScene(index, IF index = 0 THEN 0 ELSE ScoreDen,
                                                  index, FrameImageUrl(index), r.name,
                                                  Undefined)))

\* the result detectScenes registers for a video analysed with `run`
AnalysisOf(videoName, run, dir) ==
    LET a == AnalysisFrom(videoName, run, dir, << >>)
    IN  [ dir |-> a.dir,
          result |-> [ AnalysisResultOf(a.scenes, Len(run)) EXCEPT !.videoName = videoName ] ]

\* the state a clean-up sees or leaves
GcState(existing, runtime, stored, dir) ==
    [ existing |-> existing, runtime |-> runtime, stored |-> stored, dir |-> dir ]

\* the videos in the order getAllVideoFiles lists them
VideoOrder ==
    << << "a", ".", "m" >>, << "s", "/", "b", ".", "m" >>, << "s", "_", "b", ".", "m" >> >>

ListedVideos(existing) == SelectSeq(VideoOrder, LAMBDA v : v \in existing)

GcInit ==
    /\ existingVideos = Videos
    /\ inDirectory = TRUE
    /\ sceneAnalysisResults = NoResults
    /\ storedSceneAnalysisResults = Undefined
    /\ scanQueue = Undefined
    /\ clean = FALSE
    /\ changed = FALSE

GcIdle ==
    /\ existingVideos = {}
    /\ inDirectory = FALSE
    /\ sceneAnalysisResults = NoResults
    /\ storedSceneAnalysisResults = Undefined
    /\ scanQueue = Undefined
    /\ clean = FALSE
    /\ changed = FALSE

\* the files whose removeEntry rejects in one run: none, one of them, or all
RemovalFailures(files) == { {}, files } \cup { { f } : f \in files }

\* the clean-up as a step of a handler, from the runtime results the handler
\* has reached; sets every variable the clean-up can change
CleanupStep(op, runtime) ==
    \E failing \in RemovalFailures(FilesOf(thumbnails)) :
        \E g \in { cleanupMissingVideoResults(existingVideos, runtime,
                       storedSceneAnalysisResults, thumbnails, failing) } :
            /\ sceneAnalysisResults' = g.runtime
            /\ storedSceneAnalysisResults' = g.stored
            /\ thumbnails' = g.dir
            /\ clean' = TRUE
            /\ changed' = FALSE
            /\ lastIo' = [ NoIo EXCEPT
                 !.op = op, !.gcRan = TRUE, !.hasChanges = g.hasChanges,
                 !.deleted = g.deleted, !.removed = g.removed,
                 !.failing = g.failed, !.changedBefore = changed,
                 !.keptBefore =
                     ThumbnailNamesOf(Restrict(runtime, existingVideos))
                     \cup (IF storedSceneAnalysisResults = Undefined THEN {}
                           ELSE ThumbnailNamesOf(Restrict(Get(storedSceneAnalysisResults),
                                                          existingVideos))),
                 !.repeated = (clean /\ runtime = sceneAnalysisResults),
                 !.stateKept =
                     GcState(existingVideos, g.runtime, g.stored, g.dir)
                       = GcState(existingVideos, runtime, storedSceneAnalysisResults,
                                 thumbnails) ]

\* a video file is deleted from the directory by the user
DeleteVideo ==
    \E videoName \in existingVideos :
        /\ existingVideos' = existingVideos \ { videoName }
        /\ clean' = FALSE
        /\ changed' = (changed \/ videoName \in DOMAIN sceneAnalysisResults
                               \/ (/\ storedSceneAnalysisResults # Undefined
                                   /\ videoName \in DOMAIN Get(storedSceneAnalysisResults)))
        /\ lastIo' = [ NoIo EXCEPT !.op = "deleteVideo", !.videoName = videoName ]
        /\ UNCHANGED << inDirectory, sceneAnalysisResults, storedSceneAnalysisResults,
                        thumbnails, scanQueue >>

\* detectScenes up to its loop, when none is running and a directory is
\* open: the videos are listed and the clean-up runs
StartScan ==
    /\ inDirectory /\ scanQueue = Undefined
    /\ scanQueue' = Some(ListedVideos(existingVideos))
    /\ CleanupStep("detectScenes", sceneAnalysisResults)
    /\ UNCHANGED << existingVideos, inDirectory >>

\* one turn of the loop of detectScenes: a video that is gone by now fails
\* to open and is passed over
AnalyzeVideo ==
    /\ scanQueue # Undefined /\ Get(scanQueue) # << >>
    /\ \E videoName \in { Head(Get(scanQueue)) } :
         /\ scanQueue' = Some(Tail(Get(scanQueue)))
         /\ IF videoName \in existingVideos
            THEN \E run \in AnalysisRuns :
                   \E a \in { AnalysisOf(videoName, run, thumbnails) } :
                     /\ thumbnails' = a.dir
                     /\ sceneAnalysisResults' =
                           [ k \in (DOMAIN sceneAnalysisResults) \cup { videoName } |->
                               IF k = videoName THEN a.result ELSE sceneAnalysisResults[k] ]
                     /\ changed' = (changed \/
                           (/\ videoName \in DOMAIN sceneAnalysisResults
                            /\ sceneAnalysisResults[videoName].totalScenes
                                 # a.result.totalScenes))
                     /\ clean' = FALSE
                     /\ lastIo' = [ NoIo EXCEPT !.op = "analyzeVideo",
                                                !.videoName = videoName ]
            ELSE /\ lastIo' = [ NoIo EXCEPT !.op = "analyzeVideo", !.videoName = videoName,
                                            !.threw = TRUE ]
                 /\ UNCHANGED << thumbnails, sceneAnalysisResults, changed, clean >>
    /\ UNCHANGED << existingVideos, inDirectory, storedSceneAnalysisResults >>

\* detectScenes after its loop: saveSceneAnalysisResults, which returns at
\* once when no directory is open
FinishScan ==
    /\ scanQueue = Some(<< >>)
    /\ scanQueue' = Undefined
    /\ storedSceneAnalysisResults' =
          IF inDirectory
          THEN saveSceneAnalysisResults(sceneAnalysisResults, storedSceneAnalysisResults)
          ELSE storedSceneAnalysisResults
    /\ clean' = (clean /\ storedSceneAnalysisResults' = storedSceneAnalysisResults)
    /\ lastIo' = [ NoIo EXCEPT !.op = "saveSceneAnalysisResults" ]
    /\ UNCHANGED << existingVideos, inDirectory, sceneAnalysisResults, thumbnails,
                    changed >>

\* goHome: the directory is left, cleanupSceneAnalysisResults empties the
\* runtime results
GoHome ==
    /\ inDirectory
    /\ inDirectory' = FALSE
    /\ sceneAnalysisResults' = NoResults
    /\ clean' = (clean /\ sceneAnalysisResults = NoResults)
    /\ lastIo' = [ NoIo EXCEPT !.op = "goHome" ]
    /\ UNCHANGED << existingVideos, storedSceneAnalysisResults, thumbnails, scanQueue,
                    changed >>

\* enterDirectory: loadStoredSceneAnalysisResults, which ends with the
\* clean-up when there are stored results and returns at once when not
EnterDirectory ==
    /\ ~inDirectory
    /\ inDirectory' = TRUE
    /\ IF storedSceneAnalysisResults = Undefined
       THEN /\ lastIo' = [ NoIo EXCEPT !.op = "enterDirectory" ]
            /\ UNCHANGED << sceneAnalysisResults, storedSceneAnalysisResults, thumbnails,
                            clean, changed >>
       ELSE CleanupStep("enterDirectory",
                        LoadedResults(sceneAnalysisResults, storedSceneAnalysisResults,
                                      thumbnails))
    /\ UNCHANGED << existingVideos, scanQueue >>

----------------------------------------------------------------------------
(* Specifications *)

\* a detector that is never used
DetectorIdle ==
    /\ DetectorInit
    /\ threshold = (3 * ScoreDen) \div 10
    /\ ~enableFeatureExtraction
    /\ ~hasDirectory

\* Spec: one detector fed a stream of frames
FnIdle == RtIdle /\ HistIdle /\ SimIdle /\ FmtIdle

WsIdle == FilesInit /\ GcIdle

\* ---------------------------------------------------------------------------
\* image-feature-extractor.ts / text-feature-extractor.ts: the lazily
\* initialised extractor.  A model load is the pipeline(...) call (for the
\* text extractor: the tokenizer and the model together) the async body of
\* initialize() awaits; it is numbered in the order it was started.  A caller
\* is one call of extractFeatureFromImage / extractFeatureFromText.
\* ---------------------------------------------------------------------------
MaxLoads == 3

Callers == { 1, 2 }

LoadIds == 1..MaxLoads

InFlight == { n \in LoadIds : loads[n] = "inFlight" }

IdleCaller == [pc |-> "idle", promise |-> 0]

\* getGlobalImageExtractor / getGlobalTextExtractor: construct on first use.
getGlobalImageExtractor ==
    /\ globalImageExtractor' =
           IF globalImageExtractor = Undefined THEN Some(instances + 1) ELSE globalImageExtractor
    /\ instances' = IF globalImageExtractor = Undefined THEN instances + 1 ELSE instances
    /\ given' = given \cup globalImageExtractor'
    /\ given' # given
    /\ UNCHANGED << extractor, isInitialized, initPromise, loads, callers, disposedInFlight >>

\* initialize(): "if (this.initPromise) return this.initPromise".
NeverShares(promise) == FALSE

SharesPromise(promise) == promise # Undefined

\* await this.initialize() of one caller, up to its first suspension:
\* initialised already, or the promise of the load under way, or a new load.
CallExtract(c) ==
    /\ globalImageExtractor # Undefined
    /\ callers[c].pc = "idle"
    /\ IF isInitialized
       THEN /\ callers' = [callers EXCEPT ![c] = [pc |-> "resolved", promise |-> 0]]
            /\ UNCHANGED << initPromise, loads >>
       ELSE IF SharesPromise(initPromise)
       THEN /\ callers' = [callers EXCEPT ![c] = [pc |-> "awaiting", promise |-> Get(initPromise)]]
            /\ UNCHANGED << initPromise, loads >>
       ELSE /\ \E n \in LoadIds :
                 /\ loads[n] = "none"
                 /\ \A m \in LoadIds : m < n => loads[m] # "none"
                 /\ loads' = [loads EXCEPT ![n] = "inFlight"]
                 /\ initPromise' = Some(n)
                 /\ callers' = [callers EXCEPT ![c] = [pc |-> "awaiting", promise |-> n]]
    /\ UNCHANGED << globalImageExtractor, instances, extractor, isInitialized, given,
                    disposedInFlight >>

\* The awaited pipeline(...) resolves: extractor is set, isInitialized = true.
LoadSucceeds(n) ==
    /\ loads[n] = "inFlight"
    /\ loads' = [loads EXCEPT ![n] = "done"]
    /\ extractor' = Some(n)
    /\ isInitialized' = TRUE
    /\ UNCHANGED << globalImageExtractor, instances, initPromise, callers, given,
                    disposedInFlight >>

\* The awaited pipeline(...) rejects: the catch block resets initPromise.
LoadFails(n) ==
    /\ loads[n] = "inFlight"
    /\ loads' = [loads EXCEPT ![n] = "failed"]
    /\ initPromise' = Undefined
    /\ UNCHANGED << globalImageExtractor, instances, extractor, isInitialized, callers, given,
                    disposedInFlight >>

\* A caller continues after "await this.initialize()": a rejected promise
\* throws, and so does "if (!this.extractor)"; otherwise it extracts.
Resume(c) ==
    /\ \/ callers[c].pc = "resolved"
       \/ callers[c].pc = "awaiting" /\ loads[callers[c].promise] # "inFlight"
    /\ callers' = [callers EXCEPT ![c] =
           IF \/ callers[c].pc = "awaiting" /\ loads[callers[c].promise] = "failed"
              \/ extractor = Undefined
           THEN IdleCaller
           ELSE [pc |-> "extracting", promise |-> 0]]
    /\ UNCHANGED << globalImageExtractor, instances, extractor, isInitialized, initPromise,
                    loads, given, disposedInFlight >>

\* The extraction of a caller returns.
Return(c) ==
    /\ callers[c].pc = "extracting"
    /\ callers' = [callers EXCEPT ![c] = IdleCaller]
    /\ UNCHANGED << globalImageExtractor, instances, extractor, isInitialized, initPromise,
                    loads, given, disposedInFlight >>

dispose ==
    /\ globalImageExtractor # Undefined
    /\ extractor' = Undefined
    /\ isInitialized' = FALSE
    /\ initPromise' = Undefined
    /\ disposedInFlight' = (disposedInFlight \/ InFlight # {})
    /\ UNCHANGED << globalImageExtractor, instances, loads, callers, given >>

ExtInit ==
    /\ globalImageExtractor = Undefined
    /\ instances = 0
    /\ extractor = Undefined
    /\ isInitialized = FALSE
    /\ initPromise = Undefined
    /\ loads = [n \in LoadIds |-> "none"]
    /\ callers = [c \in Callers |-> IdleCaller]
    /\ given = {}
    /\ disposedInFlight = FALSE

ExtIdle == ExtInit

\* ---------------------------------------------------------------------------
\* index.vue: detectScenes as the steps between its suspension points, with
\* the navigation of the user.  Two directories are stored: "A", which holds
\* the videos and thumbnails/, and "B", which holds no video; "" is the home
\* page.  `batch` describes the detectScenes call that runs or ran last.
\* ---------------------------------------------------------------------------
MaxBatches == 2

MaxBatchFrames == 2

DirectoryKeys == { "A", "B" }

BatchVideos == { VideoOrder[1], VideoOrder[2] }

NoBatch ==
    [ key |-> "",             \* the directory whose handle detectScenes took
      listed |-> << >>,       \* videoFiles
      storedBefore |-> {},    \* videos with a stored result when the loop began
      video |-> Undefined,    \* the video of the current turn of the loop
      scenes |-> << >>,       \* the sceneChanges of its detector
      pulled |-> 0,           \* the frames pulled from its sampler
      calls |-> 0,            \* processFrame calls not yet settled
      completed |-> {},       \* videos whose result this batch registered
      failed |-> {},          \* videos whose turn ended without a result
      toasted |-> {},         \* failures shown in a toast
      logged |-> {},          \* failures written to the console
      navigated |-> FALSE,    \* goHome / goBack was called during the batch
      afterNavigation |-> FALSE,  \* a video was opened or a frame pulled after that
      finished |-> FALSE,     \* the finally block has run
      savedKey |-> "",        \* the key saveSceneAnalysisResults wrote under
      persisted |-> {} ]      \* completed videos whose result it wrote there

BatchInit ==
    /\ detectingScenesLoading = FALSE
    /\ currentDirectoryKey = "A"
    /\ otherStored = Undefined
    /\ batch = NoBatch
    /\ activeBatches = 0
    /\ batches = 0
    /\ openFrames = 0

BatchIdle ==
    /\ detectingScenesLoading = FALSE
    /\ currentDirectoryKey = ""
    /\ otherStored = Undefined
    /\ batch = NoBatch
    /\ activeBatches = 0
    /\ batches = 0
    /\ openFrames = 0

\* the workspace of the batch: directory "A" with its videos, nothing stored
WorkspaceInit ==
    /\ existingVideos = BatchVideos
    /\ inDirectory = FALSE
    /\ sceneAnalysisResults = NoResults
    /\ storedSceneAnalysisResults = Undefined
    /\ scanQueue = Undefined
    /\ clean = FALSE
    /\ changed = FALSE

\* storedSceneAnalysisResults.value[directoryKey]
StoredUnder(key) == IF key = "A" THEN storedSceneAnalysisResults ELSE otherStored

\* what getAllVideoFiles finds under the handle of the directory
VideosUnder(key) == IF key = "A" THEN existingVideos ELSE {}

\* thumbnails/ under the handle of the directory
ThumbnailsUnder(key) == IF key = "A" THEN thumbnails ELSE Undefined

\* the variables a clean-up or a save in the directory `key` may change
SetWorkspace(key, runtime, stored, dir) ==
    /\ sceneAnalysisResults' = runtime
    /\ storedSceneAnalysisResults' = IF key = "A" THEN stored ELSE storedSceneAnalysisResults
    /\ otherStored' = IF key = "B" THEN stored ELSE otherStored
    /\ thumbnails' = IF key = "A" THEN dir ELSE thumbnails

\* cleanupMissingVideoResults in the directory that is open right now
CleanupIn(key, runtime) ==
    \E g \in { cleanupMissingVideoResults(VideosUnder(key), runtime, StoredUnder(key),
                                          ThumbnailsUnder(key), {}) } :
        SetWorkspace(key, g.runtime, g.stored, g.dir)

\* the guard at the head of detectScenes
AlwaysStarts(loading) == TRUE

MayStart(loading) == ~loading

\* the per-video catch block ends the whole loop
AbortBatch(queue) == << >>

\* the per-video catch block: the loop goes on with the next video
QueueAfterFailure(queue) == queue

\* the frame is left open when processFrame succeeds as well
KeepOpen(open) == open

\* videoFrame.close() after the awaited processFrame
CloseFrame(open) == open - 1

\* detectScenes up to its loop.  At home there is no handle: the toast, the
\* return and the finally block follow at once; so they do when
\* getAllVideoFiles rejects.  Otherwise the videos are listed and the
\* clean-up runs.
BatchStart ==
    /\ MayStart(detectingScenesLoading)
    /\ batches < MaxBatches
    /\ batches' = batches + 1
    /\ \E listing \in { "ok", "rejects" } :
         IF currentDirectoryKey = "" \/ listing = "rejects"
         THEN /\ detectingScenesLoading' = FALSE
              /\ UNCHANGED << batch, activeBatches, scanQueue, sceneAnalysisResults,
                              storedSceneAnalysisResults, otherStored, thumbnails >>
         ELSE /\ detectingScenesLoading' = TRUE
              /\ activeBatches' = activeBatches + 1
              /\ scanQueue' = Some(ListedVideos(VideosUnder(currentDirectoryKey)))
              /\ batch' = [ NoBatch EXCEPT
                     !.key = currentDirectoryKey,
                     !.listed = Get(scanQueue'),
                     !.storedBefore =
                         LET g == cleanupMissingVideoResults(
                                      VideosUnder(currentDirectoryKey), sceneAnalysisResults,
                                      StoredUnder(currentDirectoryKey),
                                      ThumbnailsUnder(currentDirectoryKey), {})
                         IN  IF g.stored = Undefined THEN {} ELSE DOMAIN Get(g.stored) ]
              /\ CleanupIn(currentDirectoryKey, sceneAnalysisResults)
    /\ UNCHANGED << currentDirectoryKey, openFrames, existingVideos >>

\* the record of a turn of the loop that ends without a result
FailedTurn(videoName, toast) ==
    [ batch EXCEPT !.video = Undefined, !.scenes = << >>, !.pulled = 0, !.calls = 0,
                   !.failed = @ \cup { videoName },
                   !.toasted = IF toast THEN @ \cup { videoName } ELSE @,
                   !.logged = @ \cup { videoName },
                   !.afterNavigation = (@ \/ batch.navigated) ]

\* a turn of the loop up to the frame loop: readFile and computeDuration
\* reject for a file that is gone or unreadable (catch: console.error and a
\* toast), a file without a video track is passed over with a console.warn
BatchOpenVideo ==
    /\ detectingScenesLoading /\ batch.video = Undefined
    /\ scanQueue # Undefined /\ Get(scanQueue) # << >>
    /\ \E videoName \in { Head(Get(scanQueue)) } :
         \E outcome \in { "ok", "unreadable", "noTrack" } :
           IF outcome = "ok" /\ videoName \in VideosUnder(batch.key)
           THEN /\ batch' = [ batch EXCEPT !.video = Some(videoName), !.scenes = << >>,
                                           !.pulled = 0, !.calls = 0,
                                           !.afterNavigation = (@ \/ batch.navigated) ]
                /\ scanQueue' = Some(Tail(Get(scanQueue)))
           ELSE IF outcome = "noTrack" /\ videoName \in VideosUnder(batch.key)
           THEN /\ batch' = FailedTurn(videoName, FALSE)
                /\ scanQueue' = Some(Tail(Get(scanQueue)))
           ELSE /\ batch' = FailedTurn(videoName, TRUE)
                /\ scanQueue' = Some(QueueAfterFailure(Tail(Get(scanQueue))))
    /\ UNCHANGED << detectingScenesLoading, currentDirectoryKey, otherStored, activeBatches,
                    batches, openFrames, existingVideos, sceneAnalysisResults,
                    storedSceneAnalysisResults, thumbnails >>

\* the sampler yields a sample: toVideoFrame, and processFrame is called
BatchPullFrame ==
    /\ detectingScenesLoading /\ batch.video # Undefined
    /\ batch.calls = 0 /\ batch.pulled < MaxBatchFrames
    /\ batch' = [ batch EXCEPT !.pulled = @ + 1, !.calls = @ + 1,
                               !.afterNavigation = (@ \/ batch.navigated) ]
    /\ openFrames' = openFrames + 1
    /\ UNCHANGED << detectingScenesLoading, currentDirectoryKey, otherStored, activeBatches,
                    batches, scanQueue, existingVideos, sceneAnalysisResults,
                    storedSceneAnalysisResults, thumbnails >>

\* the awaited processFrame settles.  Each frame of the model is a boundary:
\* its thumbnail is written under the handle the batch took (a write that
\* fails is caught inside and leaves the scene without thumbnailFileName, as
\* in AnalysisFrom); then the frame is closed.  When processFrame
\* rejects (the canvas gives no context or no image data) the catch block of
\* the video is entered from the await and videoFrame.close() is not reached.
BatchProcessFrame ==
    /\ detectingScenesLoading /\ batch.video # Undefined /\ batch.calls = 1
    /\ \E outcome \in { "ok", "throws" } :
         IF outcome = "throws"
         THEN /\ batch' = FailedTurn(Get(batch.video), TRUE)
              /\ scanQueue' = Some(QueueAfterFailure(Get(scanQueue)))
              /\ UNCHANGED << openFrames, thumbnails >>
         ELSE \E r \in { SaveThumbnailIn(outcome, ThumbnailsUnder(batch.key),
                                         Get(batch.video), batch.pulled - 1,
                                         batch.pulled - 1) } :
                /\ thumbnails' = IF batch.key = "A" THEN r.dir ELSE thumbnails
                /\ batch' = [ batch EXCEPT !.calls = 0,
                     !.scenes = Append(@, NewScene(batch.pulled - 1,
                                                   IF batch.pulled = 1 THEN 0 ELSE ScoreDen,
                                                   batch.pulled - 1,
                                                   FrameImageUrl(batch.pulled - 1),
                                                   r.name, Undefined)) ]
                /\ openFrames' = CloseFrame(openFrames)
                /\ UNCHANGED scanQueue
    /\ UNCHANGED << detectingScenesLoading, currentDirectoryKey, otherStored, activeBatches,
                    batches, existingVideos, sceneAnalysisResults,
                    storedSceneAnalysisResults >>

\* only the result registered last is held
OnlyLatest(results, videoName, result) == [ k \in { videoName } |-> result ]

\* sceneAnalysisResults.value[videoFile.relativePath] = analysisResult
Registered(results, videoName, result) ==
    [ k \in (DOMAIN results) \cup { videoName } |->
        IF k = videoName THEN result ELSE results[k] ]

\* the sampler is exhausted: getSceneChanges, finishAnalysis (its errors are
\* caught), and the result is registered under the relativePath of the video
BatchFinishVideo ==
    /\ detectingScenesLoading /\ batch.video # Undefined
    /\ batch.calls = 0 /\ batch.pulled >= 1
    /\ \E videoName \in { Get(batch.video) } :
         /\ sceneAnalysisResults' =
               Registered(sceneAnalysisResults, videoName,
                          [ AnalysisResultOf(batch.scenes, batch.pulled - 1)
                              EXCEPT !.videoName = videoName ])
         /\ batch' = [ batch EXCEPT !.video = Undefined, !.scenes = << >>, !.pulled = 0,
                                    !.completed = @ \cup { videoName } ]
    /\ UNCHANGED << detectingScenesLoading, currentDirectoryKey, otherStored, activeBatches,
                    batches, openFrames, scanQueue, existingVideos,
                    storedSceneAnalysisResults, thumbnails >>

\* detectScenes after its loop: saveSceneAnalysisResults, which takes
\* currentDirectoryKey now and returns at once at home; then the finally block
BatchFinish ==
    /\ detectingScenesLoading /\ batch.video = Undefined
    /\ scanQueue # Undefined /\ Get(scanQueue) = << >>
    /\ scanQueue' = Undefined
    /\ detectingScenesLoading' = FALSE
    /\ activeBatches' = activeBatches - 1
    /\ IF currentDirectoryKey = ""
       THEN UNCHANGED << sceneAnalysisResults, storedSceneAnalysisResults, otherStored,
                         thumbnails >>
       ELSE SetWorkspace(currentDirectoryKey, sceneAnalysisResults,
                         saveSceneAnalysisResults(sceneAnalysisResults,
                                                  StoredUnder(currentDirectoryKey)),
                         ThumbnailsUnder(currentDirectoryKey))
    /\ batch' = [ batch EXCEPT !.finished = TRUE,
                    !.savedKey = IF DOMAIN sceneAnalysisResults = {} THEN ""
                                 ELSE currentDirectoryKey,
                    !.persisted =
                        IF currentDirectoryKey = "" THEN {}
                        ELSE LET stored == saveSceneAnalysisResults(
                                               sceneAnalysisResults,
                                               StoredUnder(currentDirectoryKey))
                             IN  { videoName \in batch.completed
                                                   \cap DOMAIN sceneAnalysisResults :
                                     /\ stored # Undefined
                                     /\ videoName \in DOMAIN Get(stored)
                                     /\ Get(stored)[videoName]
                                            = StoredResultOf(
                                                  sceneAnalysisResults[videoName]) } ]
    /\ UNCHANGED << currentDirectoryKey, batches, openFrames, existingVideos >>

\* goHome, and goBack from a stored directory, which calls it: the path is
\* emptied and cleanupSceneAnalysisResults empties the runtime results
NavigateHome ==
    /\ currentDirectoryKey # ""
    /\ currentDirectoryKey' = ""
    /\ sceneAnalysisResults' = NoResults
    /\ batch' = [ batch EXCEPT !.navigated = (@ \/ detectingScenesLoading) ]
    /\ UNCHANGED << detectingScenesLoading, otherStored, activeBatches, batches, openFrames,
                    scanQueue, existingVideos, storedSceneAnalysisResults, thumbnails >>

\* enterDirectory from the home page: loadStoredSceneAnalysisResults, which
\* returns at once without stored results and ends with the clean-up
NavigateInto(key) ==
    /\ currentDirectoryKey = ""
    /\ currentDirectoryKey' = key
    /\ IF StoredUnder(key) = Undefined
       THEN UNCHANGED << sceneAnalysisResults, storedSceneAnalysisResults, otherStored,
                         thumbnails >>
       ELSE CleanupIn(key, LoadedResults(sceneAnalysisResults, StoredUnder(key),
                                         ThumbnailsUnder(key)))
    /\ UNCHANGED << detectingScenesLoading, batch, activeBatches, batches, openFrames,
                    scanQueue, existingVideos >>

\* the user deletes a video file of directory "A"
RemoveVideoFile ==
    /\ \E videoName \in existingVideos : existingVideos' = existingVideos \ { videoName }
    /\ UNCHANGED << detectingScenesLoading, currentDirectoryKey, otherStored, batch,
                    activeBatches, batches, openFrames, scanQueue, sceneAnalysisResults,
                    storedSceneAnalysisResults, thumbnails >>

\* what no step of the batch touches
BatchFrame == UNCHANGED << inDirectory, clean, changed, featuresDir, lastIo, writers >>

RestIdle == ExtIdle /\ BatchIdle

Init == DetectorInit /\ DurIdle /\ SrchIdle /\ FnIdle /\ WsIdle /\ RestIdle

Next ==
    \/ InitFeatureExtractor /\ UNCHANGED << restVars, durVars, srchVars, fnVars, wsVars >>
    \/ ProcessFrame /\ UNCHANGED << restVars, durVars, srchVars, fnVars, wsVars >>

Spec == Init /\ [][Next]_vars

\* SpecReset: a detector that is fed, reset and fed again
NextReset ==
    \/ InitFeatureExtractor /\ UNCHANGED << restVars, durVars, srchVars, fnVars, wsVars >>
    \/ ProcessFrameWith(MaxShortFrames, ThumbOutcomes) /\ UNCHANGED << restVars, durVars, srchVars, fnVars, wsVars >>
    \/ Reset /\ UNCHANGED << restVars, durVars, srchVars, fnVars, wsVars >>

SpecReset == Init /\ [][NextReset]_vars

\* SpecPersist: processFrame, reset, finishAnalysis and loadSavedFeatures in
\* any order on one detector and its features file
NextPersist ==
    \/ InitFeatureExtractor /\ UNCHANGED << restVars, durVars, srchVars, fnVars, wsVars >>
    \/ ProcessFrameWith(MaxShortFrames, { "ok" }) /\ UNCHANGED << restVars, durVars, srchVars, fnVars, wsVars >>
    \/ Reset /\ UNCHANGED << restVars, durVars, srchVars, fnVars, wsVars >>
    \/ FinishAnalysis /\ UNCHANGED << restVars, durVars, srchVars, fnVars, wsVars >>
    \/ LoadSavedFeatures /\ UNCHANGED << restVars, durVars, srchVars, fnVars, wsVars >>

SpecPersist == Init /\ [][NextPersist]_vars

\* SpecScan: detectScenes on one video: the frame loop, then the completion
NextScan ==
    \/ InitFeatureExtractor /\ UNCHANGED << restVars, durVars, srchVars, fnVars, wsVars >>
    \/ (analysisResult = {} /\ ProcessFrame)
          /\ UNCHANGED << restVars, durVars, srchVars, fnVars, wsVars >>
    \/ (analysisResult = {} /\ CompleteVideo) /\ UNCHANGED << restVars, durVars, srchVars, fnVars, wsVars >>

SpecScan == Init /\ [][NextScan]_vars

\* SpecCaller: a caller that keeps and changes what getSceneChanges returned
NextCaller ==
    \/ ProcessFrameWith(MaxShortFrames, { "ok" }) /\ UNCHANGED << restVars, durVars, srchVars, fnVars, wsVars >>
    \/ Reset /\ UNCHANGED << restVars, durVars, srchVars, fnVars, wsVars >>
    \/ GetSceneChanges /\ UNCHANGED << restVars, durVars, srchVars, fnVars, wsVars >>
    \/ CallerPop /\ UNCHANGED << restVars, durVars, srchVars, fnVars, wsVars >>
    \/ CallerWriteScene /\ UNCHANGED << restVars, durVars, srchVars, fnVars, wsVars >>

SpecCaller == Init /\ [][NextCaller]_vars

\* SpecDurations: calculateSceneDurations on every ordered list of the model
InitDurations == DetectorIdle /\ DurInit /\ SrchIdle /\ FnIdle /\ WsIdle /\ RestIdle

NextDurations == ApplyDurations /\ UNCHANGED << restVars, detVars, srchVars, fnVars, wsVars >>

SpecDurations == InitDurations /\ [][NextDurations]_vars

\* SpecSearch: searchByText on every query and scene map of the model
InitSearch == DetectorIdle /\ DurIdle /\ SrchInit /\ FnIdle /\ WsIdle /\ RestIdle

NextSearch == SearchByText /\ UNCHANGED << restVars, detVars, durVars, fnVars, wsVars >>

SpecSearch == InitSearch /\ [][NextSearch]_vars

\* SpecRoundTrip: serialization and back on every scene list of the model
InitRoundTrip ==
    DetectorIdle /\ DurIdle /\ SrchIdle /\ RtInit /\ HistIdle /\ SimIdle /\ FmtIdle /\ WsIdle /\ RestIdle

NextRoundTrip ==
    RoundTrip /\ UNCHANGED << restVars, detVars, durVars, srchVars, histIn, histOut, simIn, simOut,
                            fmtIn, fmtOut, wsVars >>

SpecRoundTrip == InitRoundTrip /\ [][NextRoundTrip]_vars

\* SpecHistogram: calculateHistogramDifference on every pair of frames
InitHistogram ==
    DetectorIdle /\ DurIdle /\ SrchIdle /\ RtIdle /\ HistInit /\ SimIdle /\ FmtIdle /\ WsIdle /\ RestIdle

NextHistogram ==
    CompareFrames /\ UNCHANGED << restVars, detVars, durVars, srchVars, rtIn, rtOut, simIn, simOut,
                                fmtIn, fmtOut, wsVars >>

SpecHistogram == InitHistogram /\ [][NextHistogram]_vars

\* SpecSimilarity: calculateTextImageSimilarity on every pair of vectors of the model
InitSimilarity ==
    DetectorIdle /\ DurIdle /\ SrchIdle /\ RtIdle /\ HistIdle /\ SimInit /\ FmtIdle /\ WsIdle /\ RestIdle

NextSimilarity ==
    CompareVectors /\ UNCHANGED << restVars, detVars, durVars, srchVars, rtIn, rtOut, histIn, histOut,
                                 fmtIn, fmtOut, wsVars >>

SpecSimilarity == InitSimilarity /\ [][NextSimilarity]_vars

\* SpecFormat: formatTimestamp on every timestamp of the model
InitFormat ==
    DetectorIdle /\ DurIdle /\ SrchIdle /\ RtIdle /\ HistIdle /\ SimIdle /\ FmtInit /\ WsIdle /\ RestIdle

NextFormat ==
    FormatTimestamp /\ UNCHANGED << restVars, detVars, durVars, srchVars, rtIn, rtOut, histIn, histOut,
                                  simIn, simOut, wsVars >>

SpecFormat == InitFormat /\ [][NextFormat]_vars

\* The extractor alone: callers, model loads and dispose() interleaved.
InitExtractor ==
    DetectorIdle /\ DurIdle /\ SrchIdle /\ FnIdle /\ WsIdle /\ ExtInit /\ BatchIdle

NextExtractor ==
    \/ getGlobalImageExtractor /\ UNCHANGED << detVars, durVars, srchVars, fnVars, wsVars, batchVars >>
    \/ (\E c \in Callers : CallExtract(c))
           /\ UNCHANGED << detVars, durVars, srchVars, fnVars, wsVars, batchVars >>
    \/ (\E n \in LoadIds : LoadSucceeds(n))
           /\ UNCHANGED << detVars, durVars, srchVars, fnVars, wsVars, batchVars >>
    \/ (\E n \in LoadIds : LoadFails(n))
           /\ UNCHANGED << detVars, durVars, srchVars, fnVars, wsVars, batchVars >>
    \/ (\E c \in Callers : Resume(c))
           /\ UNCHANGED << detVars, durVars, srchVars, fnVars, wsVars, batchVars >>
    \/ (\E c \in Callers : Return(c))
           /\ UNCHANGED << detVars, durVars, srchVars, fnVars, wsVars, batchVars >>
    \/ dispose /\ UNCHANGED << detVars, durVars, srchVars, fnVars, wsVars, batchVars >>

SpecExtractor == InitExtractor /\ [][NextExtractor]_vars

\* detectScenes batches in directory "A"; the user navigates between batches
\* only, and may delete video files at any time.
InitBatch ==
    DetectorIdle /\ DurIdle /\ SrchIdle /\ FnIdle /\ FilesInit /\ WorkspaceInit /\ ExtIdle
        /\ BatchInit

NextBatch ==
    \/ BatchStart /\ BatchFrame /\ UNCHANGED << detVars, durVars, srchVars, fnVars, extVars >>
    \/ BatchOpenVideo /\ BatchFrame
           /\ UNCHANGED << detVars, durVars, srchVars, fnVars, extVars >>
    \/ BatchPullFrame /\ BatchFrame
           /\ UNCHANGED << detVars, durVars, srchVars, fnVars, extVars >>
    \/ BatchProcessFrame /\ BatchFrame
           /\ UNCHANGED << detVars, durVars, srchVars, fnVars, extVars >>
    \/ BatchFinishVideo /\ BatchFrame
           /\ UNCHANGED << detVars, durVars, srchVars, fnVars, extVars >>
    \/ BatchFinish /\ BatchFrame
           /\ UNCHANGED << detVars, durVars, srchVars, fnVars, extVars >>
    \/ (~detectingScenesLoading /\ NavigateHome) /\ BatchFrame
           /\ UNCHANGED << detVars, durVars, srchVars, fnVars, extVars >>
    \/ (~detectingScenesLoading /\ NavigateInto("A")) /\ BatchFrame
           /\ UNCHANGED << detVars, durVars, srchVars, fnVars, extVars >>
    \/ RemoveVideoFile /\ BatchFrame
           /\ UNCHANGED << detVars, durVars, srchVars, fnVars, extVars >>

SpecBatch == InitBatch /\ [][NextBatch]_vars

\* detectScenes batches with the user navigating at any time, between the
\* stored directories "A" and "B".
InitNavigation == InitBatch

NextNavigation ==
    \/ BatchStart /\ BatchFrame /\ UNCHANGED << detVars, durVars, srchVars, fnVars, extVars >>
    \/ BatchOpenVideo /\ BatchFrame
           /\ UNCHANGED << detVars, durVars, srchVars, fnVars, extVars >>
    \/ BatchPullFrame /\ BatchFrame
           /\ UNCHANGED << detVars, durVars, srchVars, fnVars, extVars >>
    \/ BatchProcessFrame /\ BatchFrame
           /\ UNCHANGED << detVars, durVars, srchVars, fnVars, extVars >>
    \/ BatchFinishVideo /\ BatchFrame
           /\ UNCHANGED << detVars, durVars, srchVars, fnVars, extVars >>
    \/ BatchFinish /\ BatchFrame
           /\ UNCHANGED << detVars, durVars, srchVars, fnVars, extVars >>
    \/ NavigateHome /\ BatchFrame
           /\ UNCHANGED << detVars, durVars, srchVars, fnVars, extVars >>
    \/ (\E key \in DirectoryKeys : NavigateInto(key)) /\ BatchFrame
           /\ UNCHANGED << detVars, durVars, srchVars, fnVars, extVars >>
    \/ RemoveVideoFile /\ BatchFrame
           /\ UNCHANGED << detVars, durVars, srchVars, fnVars, extVars >>

SpecNavigation == InitNavigation /\ [][NextNavigation]_vars

\* the thumbnails of several videos in one directory
InitThumbnails == DetectorIdle /\ DurIdle /\ SrchIdle /\ FnIdle /\ FilesInit /\ GcIdle /\ RestIdle

NextThumbnails ==
    \/ SaveThumbnail /\ UNCHANGED << restVars, detVars, durVars, srchVars, fnVars, gcVars >>
    \/ LoadThumbnail /\ UNCHANGED << restVars, detVars, durVars, srchVars, fnVars, gcVars >>

SpecThumbnails == InitThumbnails /\ [][NextThumbnails]_vars

\* the features files of several videos in one directory
InitFeatures == DetectorIdle /\ DurIdle /\ SrchIdle /\ FnIdle /\ FilesInit /\ GcIdle /\ RestIdle

NextFeatures ==
    \/ SaveFeatures /\ UNCHANGED << restVars, detVars, durVars, srchVars, fnVars, gcVars >>
    \/ LoadFeatures /\ UNCHANGED << restVars, detVars, durVars, srchVars, fnVars, gcVars >>

SpecFeatures == InitFeatures /\ [][NextFeatures]_vars

\* loads from a directory that holds any files
InitLoads == DetectorIdle /\ DurIdle /\ SrchIdle /\ FnIdle /\ OpenedInit /\ GcIdle /\ RestIdle

NextLoads ==
    \/ LoadThumbnail /\ UNCHANGED << restVars, detVars, durVars, srchVars, fnVars, gcVars >>
    \/ LoadFeatures /\ UNCHANGED << restVars, detVars, durVars, srchVars, fnVars, gcVars >>

SpecLoads == InitLoads /\ [][NextLoads]_vars

\* the page: scans, deleted videos, leaving and entering the directory
InitCleanup == DetectorIdle /\ DurIdle /\ SrchIdle /\ FnIdle /\ FilesInit /\ GcInit /\ RestIdle

NextCleanup ==
    \/ DeleteVideo /\ UNCHANGED << restVars, detVars, durVars, srchVars, fnVars, featuresDir, writers >>
    \/ StartScan /\ UNCHANGED << restVars, detVars, durVars, srchVars, fnVars, featuresDir, writers >>
    \/ AnalyzeVideo /\ UNCHANGED << restVars, detVars, durVars, srchVars, fnVars, featuresDir, writers >>
    \/ FinishScan /\ UNCHANGED << restVars, detVars, durVars, srchVars, fnVars, featuresDir, writers >>
    \/ GoHome /\ UNCHANGED << restVars, detVars, durVars, srchVars, fnVars, featuresDir, writers >>
    \/ EnterDirectory /\ UNCHANGED << restVars, detVars, durVars, srchVars, fnVars, featuresDir, writers >>

SpecCleanup == InitCleanup /\ [][NextCleanup]_vars

----------------------------------------------------------------------------
(* Properties of the detector *)

\* C1 (SpecPersist): once a frame has been processed (since construction or
\* the last reset), the scene list is not empty and its first scene has score 0
\* and frameIndex 0, whatever processFrame, reset, finishAnalysis and
\* loadSavedFeatures calls came before.
C1_FirstBoundary ==
    getStats.totalFramesProcessed > 0 =>
        /\ Len(sceneChanges) > 0
        /\ sceneChanges[1].score = 0
        /\ sceneChanges[1].frameIndex = 0

\* frames were processed, the detector reset, a frame processed again and the
\* saved list then loaded over it
C1_Witness ==
    /\ resets = 1
    /\ frameIndex > 0
    /\ lastCall.op = "loadSavedFeatures" /\ lastCall.result = Some("true")
    /\ Len(sceneChanges) = 2

\* C2, as claimed (Spec): consecutive scenes have strictly increasing timestamps
\* and strictly increasing frameIndex values.
C2_StrictlyIncreasing ==
    \A i \in 1..(Len(sceneChanges) - 1) :
        /\ sceneChanges[i].timestamp < sceneChanges[i + 1].timestamp
        /\ sceneChanges[i].frameIndex < sceneChanges[i + 1].frameIndex

\* C2, amended (Spec): for a stream with non-decreasing timestamps, consecutive
\* scenes have non-decreasing timestamps and strictly increasing frameIndex
\* values; each scene carries the timestamp of its frame, so two boundaries on
\* frames of equal timestamp carry equal timestamps.
C2_Ordering ==
    \A i \in 1..(Len(sceneChanges) - 1) :
        /\ sceneChanges[i].timestamp <= sceneChanges[i + 1].timestamp
        /\ sceneChanges[i].frameIndex < sceneChanges[i + 1].frameIndex

\* two boundaries on frames with the same timestamp
C2_Witness ==
    /\ Len(sceneChanges) >= 2
    /\ sceneChanges[1].timestamp = sceneChanges[2].timestamp
    /\ sceneChanges[1].frameIndex < sceneChanges[2].frameIndex

\* C3 (Spec): a processFrame call after the first reports a scene change and
\* appends a scene scored with the difference if and only if the difference
\* between the frame of the call before and this frame is above the threshold
\* (strictly); otherwise nothing is appended.
C3_EmissionRule ==
    (lastCall.op = "processFrame" /\ ~lastCall.first) =>
        LET d == DifferenceOf[Get(lastCall.prevFed), Get(lastCall.frame)]
        IN  /\ lastCall.isSceneChange <=> d > threshold
            /\ d > threshold =>
                  /\ Len(sceneChanges) = lastCall.lenBefore + 1
                  /\ Last(sceneChanges).score = d
                  /\ Last(sceneChanges).frameIndex = lastCall.indexBefore
                  /\ Last(sceneChanges).timestamp = lastCall.timestamp
            /\ d <= threshold => Len(sceneChanges) = lastCall.lenBefore

\* a third frame whose difference to the second frame equals the threshold:
\* nothing is emitted, although the second frame emitted nothing either and the
\* difference to the frame of the last boundary is above the threshold
C3_Witness ==
    /\ lastCall.op = "processFrame" /\ ~lastCall.first
    /\ lastCall.indexBefore = 2
    /\ Len(sceneChanges) = 1
    /\ DifferenceOf[Get(lastCall.prevFed), Get(lastCall.frame)] = threshold
    /\ ~lastCall.isSceneChange

\* C5 (Spec): when the embedding provider throws in a processFrame call that
\* detects a boundary, the call does not throw, the boundary is appended without
\* an embedding, and previous frame and frameIndex advance as usual.
C5_EmbeddingFailure ==
    (lastCall.op = "processFrame" /\ lastCall.embedThrew) =>
        /\ ~lastCall.threw
        /\ lastCall.isSceneChange
        /\ Len(sceneChanges) = lastCall.lenBefore + 1
        /\ Last(sceneChanges).imageFeatures = Undefined
        /\ Last(sceneChanges).frameIndex = lastCall.indexBefore
        /\ Last(sceneChanges).timestamp = lastCall.timestamp
        /\ previousFrameData = lastCall.frame
        /\ frameIndex = lastCall.indexBefore + 1

\* the provider threw on a boundary that is not the first frame
C5_Witness ==
    /\ lastCall.op = "processFrame" /\ lastCall.embedThrew
    /\ ~lastCall.first
    /\ Len(sceneChanges) >= 2

\* C6 (Spec): when saveThumbnailToLocalDirectory throws in a processFrame call
\* that detects a boundary, the call does not throw, the boundary is appended
\* with thumbnailFileName undefined, and the other fields of the scene and the
\* detector state are what the call gives when the thumbnail is written.
C6_ThumbnailFailure ==
    (lastCall.op = "processFrame" /\ lastCall.thumbCalled /\ lastCall.thumbOutcome # "ok") =>
        /\ ~lastCall.threw
        /\ lastCall.isSceneChange
        /\ lastCall.thumbnailFileName = Undefined
        /\ Len(sceneChanges) = lastCall.lenBefore + 1
        /\ Last(sceneChanges).thumbnailFileName = Undefined
        /\ Last(sceneChanges).timestamp = lastCall.timestamp
        /\ Last(sceneChanges).frameIndex = lastCall.indexBefore
        /\ Last(sceneChanges).score =
              IF lastCall.first THEN 0
              ELSE DifferenceOf[Get(lastCall.prevFed), Get(lastCall.frame)]
        /\ Last(sceneChanges).frameImageUrl = FrameImageUrl(lastCall.indexBefore)
        /\ (Last(sceneChanges).imageFeatures = Undefined)
              <=> (~lastCall.embedCalled \/ lastCall.embedThrew)
        /\ previousFrameData = lastCall.frame
        /\ frameIndex = lastCall.indexBefore + 1
        /\ lastProcessedTime = lastCall.timestamp
        /\ ~isFirstFrame

\* the write failed after the file was created, on a boundary that is not the
\* first frame, and the embedding was still extracted
C6_Witness ==
    /\ lastCall.op = "processFrame" /\ lastCall.thumbOutcome = "writeFails"
    /\ ~lastCall.first
    /\ Last(sceneChanges).thumbnailFileName = Undefined
    /\ Last(sceneChanges).imageFeatures # Undefined

\* C7 (SpecReset): after reset the scene list is empty and getStats reports
\* 0 frames, 0 scenes and lastProcessedTime -1; the next processFrame call does
\* what the first call on a new detector does: it emits a boundary with score 0
\* and frameIndex 0, compares with no earlier frame, and leaves a list of that
\* one scene.
C7_Reset ==
    /\ lastCall.op = "reset" =>
          /\ sceneChanges = << >>
          /\ getStats = [ totalFramesProcessed |-> 0, scenesDetected |-> 0,
                          lastProcessedTime |-> -1 ]
          /\ isFirstFrame /\ previousFrameData = {}
    /\ (lastCall.op = "processFrame" /\ lastCall.indexBefore = 0) =>
          /\ lastCall.first /\ lastCall.isSceneChange
          /\ Len(sceneChanges) = 1
          /\ sceneChanges[1].score = 0
          /\ sceneChanges[1].frameIndex = 0
          /\ sceneChanges[1].timestamp = lastCall.timestamp
          /\ getStats = [ totalFramesProcessed |-> 1, scenesDetected |-> 1,
                          lastProcessedTime |-> lastCall.timestamp ]

\* the first frame after a reset, on a detector whose thumbnails directory
\* still holds the files of the earlier run
C7_Witness ==
    /\ resets = 1
    /\ lastCall.op = "processFrame" /\ lastCall.indexBefore = 0
    /\ Cardinality(thumbnailsDir) >= 2

\* C4, as claimed (SpecScan): once finishAnalysis has completed on a detector
\* that processed a frame, every scene of the detector's list and every record
\* written to the features file carries a duration.
C4_DetectorHasDurations ==
    (lastCall.op = "completeVideo" /\ frameIndex > 0) =>
        /\ \A i \in 1..Len(sceneChanges) : sceneChanges[i].duration # Undefined
        /\ (featuresFile # {} /\ Get(featuresFile).valid) =>
              \A i \in 1..Len(Get(featuresFile).sceneChanges) :
                  Get(featuresFile).sceneChanges[i].duration # Undefined

\* C4, amended (SpecScan): finishAnalysis computes no duration.  Once
\* detectScenes has completed a video that gave at least one frame, every scene
\* of the registered analysis result carries its duration (to the next scene's
\* timestamp, for the last scene to the largest frame timestamp), while the
\* scenes of the detector's list and the records of the features file carry
\* none.
C4_ResultHasDurations ==
    (lastCall.op = "completeVideo" /\ frameIndex > 0) =>
        LET result == Get(analysisResult)
            n == Len(sceneChanges)
        IN  /\ analysisResult # {}
            /\ Len(result.sceneChanges) = n
            /\ \A i \in 1..n :
                  /\ result.sceneChanges[i].timestamp = sceneChanges[i].timestamp
                  /\ result.sceneChanges[i].duration =
                        Some(IF i < n
                             THEN sceneChanges[i + 1].timestamp - sceneChanges[i].timestamp
                             ELSE lastProcessedTime - sceneChanges[i].timestamp)
                  /\ sceneChanges[i].duration = Undefined
            /\ (featuresFile # {} /\ Get(featuresFile).valid) =>
                  \A i \in 1..Len(Get(featuresFile).sceneChanges) :
                      Get(featuresFile).sceneChanges[i].duration = Undefined

\* a video of two scenes whose last scene lasts a while, with its features
\* file written
C4_Witness ==
    /\ lastCall.op = "completeVideo" /\ lastCall.result # Undefined
    /\ Len(sceneChanges) = 2
    /\ lastProcessedTime > sceneChanges[2].timestamp
    /\ featuresFile # {}

\* C8, as claimed (SpecCaller): nothing a caller does to a returned array or
\* to the scenes in it changes the detector's list, which a later
\* getSceneChanges returns, and processFrame and reset leave an array returned
\* earlier as it was.
C8_DefensiveCopy ==
    /\ lastCall.op \in { "callerPop", "callerWriteScene" } =>
          sceneChanges = lastCall.scenesBefore
    /\ lastCall.op \in { "processFrame", "reset" } =>
          ReturnedValues = lastCall.returnedBefore

\* C8, amended (SpecCaller): getSceneChanges returns a new array that holds the
\* detector's own scene objects.  Removing elements from the returned array
\* does not change the detector's list, and processFrame and reset leave an
\* array returned earlier as it was; a write to a scene of the returned array
\* that the detector still holds shows in the detector's list, and so in what a
\* later getSceneChanges returns, while a write to a scene the detector has
\* dropped does not.
C8_ShallowCopy ==
    /\ lastCall.op = "getSceneChanges" =>
          /\ returned # {}
          /\ Values(Get(returned)) = sceneChanges
          /\ \A i \in 1..Len(Get(returned)) : Get(returned)[i].idx = i
    /\ lastCall.op = "callerPop" => sceneChanges = lastCall.scenesBefore
    /\ lastCall.op \in { "processFrame", "reset" } =>
          ReturnedValues = lastCall.returnedBefore
    /\ lastCall.op = "callerWriteScene" =>
          /\ Len(sceneChanges) = Len(lastCall.scenesBefore)
          /\ \A i \in 1..Len(sceneChanges) :
                IF i = lastCall.target
                THEN sceneChanges[i] =
                        [ lastCall.scenesBefore[i] EXCEPT !.duration = Some(0) ]
                ELSE sceneChanges[i] = lastCall.scenesBefore[i]

\* a write through the returned array has changed a scene of the detector's
\* list, after a later frame had added a scene to that list only
C8_Witness ==
    /\ lastCall.op = "callerWriteScene" /\ lastCall.target > 0
    /\ sceneChanges # lastCall.scenesBefore
    /\ Len(sceneChanges) > Len(Get(returned))

\* C9 (SpecDurations): calculateSceneDurations returns a list of the same
\* length and order in which every scene but the last has the next scene's
\* timestamp minus its own as duration, and the last has the total minus its
\* timestamp when the total is given and 0 when not; timestamps 0, 5, 12 with
\* total 20 give 5, 7, 8; the argument and its scenes are as before.
C9_Durations ==
    durOut # {} =>
        LET out == Get(durOut)
            n == Len(durIn)
        IN  /\ Len(out) = n
            /\ \A i \in 1..n :
                  /\ out[i].timestamp = durIn[i].timestamp
                  /\ out[i].frameIndex = durIn[i].frameIndex
                  /\ out[i].score = durIn[i].score
                  /\ out[i].duration =
                        Some(IF i < n THEN durIn[i + 1].timestamp - durIn[i].timestamp
                             ELSE IF durTotal # Undefined
                                  THEN Get(durTotal) - durIn[i].timestamp
                                  ELSE 0)
                  /\ durIn[i].duration = Undefined
            /\ durIn = durOrig
            /\ ([ i \in 1..n |-> durIn[i].timestamp ] = << 0, 5, 12 >> /\ durTotal = Some(20)) =>
                  [ i \in 1..n |-> out[i].duration ] = << Some(5), Some(7), Some(8) >>

\* the list with timestamps 0, 5, 12 and total 20 has been given its durations
C9_Witness ==
    /\ durOut # {}
    /\ durTotal = Some(20)
    /\ Len(durIn) = 3
    /\ durIn[1].timestamp = 0 /\ durIn[2].timestamp = 5 /\ durIn[3].timestamp = 12
    /\ Get(durOut)[3].duration = Some(8)

\* C10 (SpecSearch): for a limit >= 0, what searchByText returns holds only
\* scenes of the map that are in scope and carry an embedding, each with its
\* similarity, which is at least minSimilarity; the results are in descending
\* order of similarity, equal ones in the iteration order of the map; there are
\* at most limit of them; and no scene in scope that was left out has a higher
\* similarity than a returned one.
C10_ResultShape ==
    (srchOut # {} /\ ~Get(srchOut).threw) =>
        LET results == Get(srchOut).results
            entries == Flatten(srchScenes)
            Returned(p) == \E k \in 1..Len(results) :
                              /\ results[k].videoName = entries[p].videoName
                              /\ results[k].scene = entries[p].scene
            \* the place of a result's scene in the iteration order of the map
            Position(result) ==
                CHOOSE p \in 1..Len(entries) :
                    /\ entries[p].videoName = result.videoName
                    /\ entries[p].scene = result.scene
        IN  IF srchQuery.blank THEN results = << >> ELSE
            /\ Len(results) <= srchQuery.limit
            /\ \A k \in 1..Len(results) :
                  /\ \E p \in 1..Len(entries) :
                        /\ entries[p].videoName = results[k].videoName
                        /\ entries[p].scene = results[k].scene
                  /\ InScope(srchQuery.videoNames, results[k].videoName)
                  /\ results[k].scene.imageFeatures # Undefined
                  /\ Some(results[k].similarity) =
                        calculateTextImageSimilarity(Get(srchQuery.queryFeatures),
                                                     Get(results[k].scene.imageFeatures))
                  /\ results[k].similarity >= srchQuery.minSimilarity
            /\ \A j, k \in 1..Len(results) :
                  j < k =>
                      /\ results[j].similarity >= results[k].similarity
                      /\ results[j].similarity = results[k].similarity =>
                            Position(results[j]) < Position(results[k])
            /\ \A p \in 1..Len(entries) :
                  (/\ ~Returned(p)
                   /\ InScope(srchQuery.videoNames, entries[p].videoName)
                   /\ entries[p].scene.imageFeatures # Undefined) =>
                      LET similarity ==
                              calculateTextImageSimilarity(Get(srchQuery.queryFeatures),
                                                           Get(entries[p].scene.imageFeatures))
                      IN  similarity # Undefined =>
                              \A k \in 1..Len(results) :
                                  Get(similarity) <= results[k].similarity

\* three scenes above the threshold, the last of the map the most similar and
\* the other two equal; with limit 2 the second of the equal ones is left out
C10_Witness ==
    /\ srchOut # {} /\ ~Get(srchOut).threw /\ ~srchQuery.blank
    /\ srchQuery.limit = 2
    /\ Len(Get(srchOut).results) = 2
    /\ Get(srchOut).results[1].videoName = "b.mp4"
    /\ Get(srchOut).results[2].scene.frameIndex = 0
    /\ srchScenes[1].scenes[1].imageFeatures = srchScenes[1].scenes[2].imageFeatures

\* C11, as claimed (SpecSearch): when a search with a query vector meets a scene
\* in scope whose embedding has another length than the query vector, the
\* search throws instead of returning results.
C11_MismatchReported ==
    (/\ srchOut # {}
     /\ ~srchQuery.blank
     /\ srchQuery.queryFeatures # Undefined
     /\ \E p \in 1..Len(Flatten(srchScenes)) :
           LET entry == Flatten(srchScenes)[p]
           IN  /\ InScope(srchQuery.videoNames, entry.videoName)
               /\ entry.scene.imageFeatures # Undefined
               /\ Len(Get(entry.scene.imageFeatures)) # Len(Get(srchQuery.queryFeatures)))
        => Get(srchOut).threw

\* C15, as claimed (SpecRoundTrip): deserializeScenes(serializeScenes(scenes))
\* equals scenes, for scenes with and without an embedding.
C15_RoundTripEqual ==
    rtOut # {} => Get(rtOut) = rtIn

\* C15, amended (SpecRoundTrip): deserializeScenes(serializeScenes(scenes)) has
\* the length and order of scenes and equals it in every field except
\* frameImageUrl, which is left out of the stored form and is undefined in the
\* result; a scene without an embedding stays without one, and an embedding
\* comes back with the same numbers.
C15_RoundTrip ==
    rtOut # {} =>
        /\ Len(Get(rtOut)) = Len(rtIn)
        /\ \A i \in 1..Len(rtIn) :
              /\ Get(rtOut)[i] = [ rtIn[i] EXCEPT !.frameImageUrl = Undefined ]
              /\ rtIn[i].imageFeatures = Undefined
                    => Get(rtOut)[i].imageFeatures = Undefined

\* a list of a scene with embedding, thumbnail, duration and blob URL and a
\* scene with none of them has gone through
C15_Witness ==
    /\ rtOut # {}
    /\ Len(rtIn) = 2
    /\ rtIn[1].imageFeatures = Some(<< 1, 0 >>) /\ rtIn[1].frameImageUrl # Undefined
    /\ rtIn[1].thumbnailFileName # Undefined /\ rtIn[1].duration # Undefined
    /\ rtIn[2].imageFeatures = Undefined /\ rtIn[2].frameImageUrl = Undefined
    /\ Get(rtOut)[1].imageFeatures = Some(<< 1, 0 >>)
    /\ Get(rtOut)[1].frameImageUrl = Undefined

\* C20, as claimed (SpecHistogram): for frames A and B of any sizes,
\* calculateHistogramDifference(A, B) = calculateHistogramDifference(B, A), and
\* calculateHistogramDifference(A, A) = 0.
C20_SymmetricAnySize ==
    histOut # {} =>
        /\ Get(histOut).ab = Get(histOut).ba
        /\ Get(histOut).aa = 0 /\ Get(histOut).bb = 0

\* C20, amended (SpecHistogram): for frames A and B with the same number of
\* pixels calculateHistogramDifference(A, B) = calculateHistogramDifference(B, A);
\* for every frame A, calculateHistogramDifference(A, A) = 0.
C20_SymmetricSameSize ==
    histOut # {} =>
        /\ Len(histIn[1]) = Len(histIn[2]) => Get(histOut).ab = Get(histOut).ba
        /\ Get(histOut).aa = 0 /\ Get(histOut).bb = 0

\* two frames of the same size with one pixel in common: the difference is
\* neither 0 nor the maximum, and the same in both orders
C20_Witness ==
    /\ histOut # {}
    /\ Len(histIn[1]) = 2 /\ Len(histIn[2]) = 2
    /\ Get(histOut).ab > 0 /\ Get(histOut).ab < ScoreDen
    /\ Get(histOut).ab = Get(histOut).ba

\* C19 (SpecPersist): finishAnalysis returns the name of the features file
\* when a directory and video name were given, the scene list is not empty, a
\* scene carries an embedding and the file was written, and then the file
\* holds the serialized list; in every other case, a failed write included, it
\* returns undefined; it does not throw and leaves the scene list as it was.
C19_FinishAnalysisResult ==
    lastCall.op = "finishAnalysis" =>
        LET saves == /\ hasDirectory
                     /\ Len(sceneChanges) > 0
                     /\ \E i \in 1..Len(sceneChanges) :
                           sceneChanges[i].imageFeatures # Undefined
        IN  /\ ~lastCall.threw
            /\ sceneChanges = lastCall.scenesBefore
            /\ lastCall.result =
                  IF saves /\ lastCall.saveOutcome = "ok"
                  THEN Some(FeaturesFileName(VideoName))
                  ELSE Undefined
            /\ lastCall.result # Undefined =>
                  featuresFile = Some([ valid |-> TRUE,
                                        sceneChanges |-> serializeScenes(sceneChanges) ])

\* a write that failed over a file an earlier call had written: undefined is
\* returned although the file on disk is a valid one
C19_Witness ==
    /\ lastCall.op = "finishAnalysis"
    /\ lastCall.saveOutcome = "writeFails"
    /\ lastCall.result = Undefined
    /\ hasDirectory /\ Len(sceneChanges) > 0
    /\ \E i \in 1..Len(sceneChanges) : sceneChanges[i].imageFeatures # Undefined
    /\ featuresFile # {} /\ Get(featuresFile).valid

\* C16: two thumbnails written under one name in thumbnails/ were written for
\* the same video and the same frame: distinct (video, frame) pairs of the
\* videos of a directory never share a thumbnail file name.
C16_CollisionFree ==
    \A w1 \in writers, w2 \in writers :
        w1.name = w2.name => w1.videoName = w2.videoName /\ w1.frameIndex = w2.frameIndex

\* C17: a saveFeaturesToLocalDirectory whose writes succeed does not throw,
\* leaves in features/ the file named by the video identifier without
\* extension and with its path separators replaced, and a load for the same
\* identifier then returns the saved shots in all persisted fields (all but
\* frameImageUrl).
C17_SaveLoadInverse ==
    (lastIo.op = "saveFeatures" /\ lastIo.outcome = "ok") =>
        /\ ~lastIo.threw
        /\ \E f \in FilesOf(featuresDir) :
               f.name = [ video |-> ReplaceSeparators(WithoutExt(lastIo.videoName)) ]
        /\ LoadFeaturesIn(featuresDir, lastIo.videoName, TRUE) =
               Some([ i \in 1..Len(lastIo.scenes) |->
                        [ lastIo.scenes[i] EXCEPT !.frameImageUrl = Undefined ] ])

\* C18: a loadThumbnailFromLocalDirectory or loadFeaturesFromLocalDirectory
\* that finds its directory absent, its file absent or (features) its file
\* unparseable returns null and does not throw, and no load creates or
\* changes a file or a directory.
C18_GracefulLoads ==
    /\ [](/\ (/\ lastIo.op = "loadThumbnail"
            /\ ThumbnailFileName(lastIo.videoName, lastIo.frameIndex, 0)
                  \notin FilesOf(thumbnails))
             => (~lastIo.threw /\ lastIo.result = Undefined)
          /\ (/\ lastIo.op = "loadFeatures"
              /\ \A f \in FeaturesFileIn(featuresDir, FeaturesFileName(lastIo.videoName)) :
                     ~f.valid)
             => (~lastIo.threw /\ lastIo.result = Undefined))
    /\ [][lastIo'.op \in { "loadThumbnail", "loadFeatures" }
            => UNCHANGED << thumbnails, featuresDir >>]_vars

C18_Witness ==
    /\ lastIo.op = "loadThumbnail"
    /\ thumbnails # Undefined /\ featuresDir = Undefined
    /\ ThumbnailFileName(lastIo.videoName, lastIo.frameIndex, 0) \notin Get(thumbnails)
    /\ lastIo.result = Undefined

\* The thumbnails the records name after a clean-up: thumbnailFileName of the
\* shots of the runtime results and of the stored results of the directory.
ReferencedThumbnails ==
    ThumbnailNamesOf(sceneAnalysisResults)
    \cup (IF storedSceneAnalysisResults = Undefined THEN {}
          ELSE ThumbnailNamesOf(Get(storedSceneAnalysisResults)))

C21_SelfSimilarityOne ==
    simOut # {} =>
        /\ Get(simOut).aa = Some(SimDen)
        /\ Len(simIn[1]) = Len(simIn[2]) =>
               (Get(simOut).ab # Undefined /\ Get(Get(simOut).ab) \in 0..SimDen)

\* C21, amended: the similarity of a vector with itself is 1.0 when the vector
\* has a length other than zero and 0.5 when its length is zero (the zero
\* vector, the empty vector); the similarity of every pair of vectors of
\* equal length lies in [0,1].
C21_SelfSimilarityNonZero ==
    simOut # {} =>
        /\ Get(simOut).aa = IF Dot(simIn[1], simIn[1]) # 0 THEN Some(SimDen)
                            ELSE Some(SimDen \div 2)
        /\ Len(simIn[1]) = Len(simIn[2]) =>
               (Get(simOut).ab # Undefined /\ Get(Get(simOut).ab) \in 0..SimDen)

C21_Witness ==
    /\ simOut # {}
    /\ simIn = << << 3, 4 >>, << -3, -4 >> >>
    /\ Get(simOut).aa = Some(SimDen)
    /\ Get(simOut).ab = Some(0)

\* C22: for every number of seconds s that is not negative, formatTimestamp
\* gives floor(s / 60) in at least two digits, a colon, and floor(s mod 60) in
\* exactly two digits between 00 and 59; the minutes do not roll over into
\* hours.
C22_FormatTimestamp ==
    fmtOut # {} =>
        LET whole == fmtIn \div TimeDen                 \* floor(s)
            m == whole \div 60
            sec == whole % 60
            TwoDigits(n) == << DigitChar(n \div 10), DigitChar(n % 10) >>
            Minutes == IF m < 100 THEN TwoDigits(m)
                       ELSE << DigitChar(m \div 100) >> \o TwoDigits(m % 100)
        IN  /\ m < 1000 /\ sec \in 0..59
            /\ Get(fmtOut) = Minutes \o << ":" >> \o TwoDigits(sec)

C22_Witness ==
    /\ fmtIn = 3725 * TimeDen + 1
    /\ fmtOut = Some(<< "6", "2", ":", "0", "5" >>)

\* ---------------------------------------------------------------------------
\* C23 as stated: under any interleaving of first-use calls and dispose calls
\* at most one model load is in flight, the callers still waiting all await
\* the same initialization promise, and getGlobalImageExtractor has only ever
\* returned one instance.
\* ---------------------------------------------------------------------------
C23_SingleLoadAnyInterleaving ==
    /\ Cardinality(InFlight) <= 1
    /\ \A c, d \in Callers :
           (/\ callers[c].pc = "awaiting" /\ loads[callers[c].promise] = "inFlight"
            /\ callers[d].pc = "awaiting" /\ loads[callers[d].promise] = "inFlight")
               => callers[c].promise = callers[d].promise
    /\ Cardinality(given) <= 1

\* C23 amended: as long as dispose() has not been called while a model load
\* was in flight, at most one model load is in flight, the callers still
\* waiting all await the promise of that load, which is this.initPromise, and
\* getGlobalImageExtractor has only ever returned one instance; the instance
\* part holds under every interleaving.
C23_SingleLoad ==
    /\ Cardinality(given) <= 1
    /\ ~disposedInFlight =>
           /\ Cardinality(InFlight) <= 1
           /\ \A n \in InFlight : initPromise = Some(n)
           /\ \A c \in Callers :
                  (callers[c].pc = "awaiting" /\ loads[callers[c].promise] = "inFlight")
                      => initPromise = Some(callers[c].promise)

\* Both callers await the one load in flight, a retry started after dispose()
\* reset an initialised extractor.
C23_Witness ==
    /\ ~disposedInFlight
    /\ \E n \in InFlight :
           /\ n > 1
           /\ \A c \in Callers : callers[c] = [pc |-> "awaiting", promise |-> n]
    /\ \E m \in LoadIds : loads[m] = "done"
    /\ given # {}

\* ---------------------------------------------------------------------------
\* C28: at most one detectScenes batch runs at a time (the guard on
\* detectingScenesLoading), at most one processFrame call of the detector of
\* the current video is in flight, and detectingScenesLoading is true exactly
\* while a batch runs: every exit (no directory handle, the listing of the
\* videos rejecting, the end of the loop) leaves it false.
\* ---------------------------------------------------------------------------
C28_MutualExclusion ==
    /\ activeBatches <= 1
    /\ batch.calls <= 1
    /\ detectingScenesLoading <=> (activeBatches = 1)
    /\ batch.finished => ~detectingScenesLoading
    /\ (batches > 0 /\ activeBatches = 0) => ~detectingScenesLoading

\* A second batch is running, a processFrame call of it in flight, after the
\* first one has ended and the user has gone to the home page meanwhile.
C28_Witness ==
    /\ detectingScenesLoading
    /\ batches >= 2
    /\ batch.calls = 1
    /\ batch.navigated

C25_StopsOnNavigation == ~batch.afterNavigation

\* ---------------------------------------------------------------------------
\* C26: every frame pulled is closed before the next one is pulled, also when
\* processFrame rejects: no frame stays open between two processFrame calls.
\* ---------------------------------------------------------------------------
C26_FrameRelease ==
    /\ openFrames <= 1
    /\ batch.calls = 0 => openFrames = 0

\* ---------------------------------------------------------------------------
\* C29: under any interleaving of navigation with a running batch the results
\* of the batch are persisted under the key of the scanned directory and
\* never under the key of another directory, and the result of no completed
\* video is dropped.
\* ---------------------------------------------------------------------------
C29_ResultsUnderScannedKey ==
    /\ otherStored # Undefined => (DOMAIN Get(otherStored)) \cap BatchVideos = {}
    /\ batch.finished =>
           /\ batch.completed \subseteq batch.persisted
           /\ batch.completed # {} => batch.savedKey = batch.key

\* ---------------------------------------------------------------------------
\* C30: a thumbnail written for a boundary of the video that is being scanned
\* (and still in the directory) is not deleted by a clean-up that runs
\* meanwhile, and every thumbnailFileName of the registered result of a video
\* of the directory names a file of thumbnails/.
\* ---------------------------------------------------------------------------
C30_NoGcRace ==
    /\ (batch.video # Undefined /\ batch.video \subseteq existingVideos) =>
           \A i \in 1..Len(batch.scenes) :
               batch.scenes[i].thumbnailFileName \subseteq FilesOf(thumbnails)
    /\ ThumbnailNamesOf(Restrict(sceneAnalysisResults, existingVideos))
           \subseteq FilesOf(thumbnails)

====
